---- MODULE Spec2Model ----
(***************************************************************************)
(* Mapfile structural analysis engine of Mapfile-Preview.                  *)
(*                                                                         *)
(* A mapfile text is a sequence of lexemes.  A lexeme is either one        *)
(* character that is not a word character (a blank, a tab, CR, LF, '#',    *)
(* a quote, ...) or one maximal run of word characters [A-Za-z0-9_]        *)
(* (a keyword, an identifier, a digit run).  The regular expressions and   *)
(* character loops of the source are translated onto this alphabet.        *)
(***************************************************************************)
EXTENDS Integers, Sequences, FiniteSets, TLC

VARIABLES fmt, bal, syn, ext, wfs, srv

vars == <<fmt, bal, syn, ext, wfs, srv>>

Null == "null"

----------------------------------------------------------------------------
(* Characters and strings                                                  *)

SP  == " "
TAB == "\t"
CR  == "\r"
LF  == "\n"
HASH == "#"
DQ  == "\""
SQ  == "'"

\* JavaScript \s, as far as the alphabet goes
WsChars == {SP, TAB, CR, LF}

\* the non-word, non-blank characters of the alphabet
Punct == {HASH, DQ, SQ, "/", "*", "\\", "=", ":", ".", "-", "+", ","}

\* digit runs of the alphabet
NumRuns == {"0", "1", "10", "300", "400", "2100", "4326", "3857"}

IsWs(c) == c \in WsChars

\* a maximal run of [A-Za-z0-9_]
IsWordRun(c) == c \notin WsChars /\ c \notin Punct

\* a run that starts with [A-Za-z_]
IsWord(c) == IsWordRun(c) /\ c \notin NumRuns

\* String.prototype.toUpperCase on the runs of the alphabet that are not
\* already upper case
UpperTable ==
    [w \in {"map", "layer", "end", "style", "Layer", "End", "a", "b", "c", "x",
            "epsg", "init", "srid", "roads", "name", "metadata",
            "wfs_srs", "wms_srs", "wms_extent", "wfs_extent", "raster", "foo"} |->
        CASE w = "map" -> "MAP"
          [] w \in {"layer", "Layer"} -> "LAYER"
          [] w \in {"end", "End"} -> "END"
          [] w = "style" -> "STYLE"
          [] w = "a" -> "A"
          [] w = "b" -> "B"
          [] w = "c" -> "C"
          [] w = "x" -> "X"
          [] w = "epsg" -> "EPSG"
          [] w = "init" -> "INIT"
          [] w = "srid" -> "SRID"
          [] w = "roads" -> "ROADS"
          [] w = "name" -> "NAME"
          [] w = "metadata" -> "METADATA"
          [] w = "wfs_srs" -> "WFS_SRS"
          [] w = "wms_srs" -> "WMS_SRS"
          [] w = "wms_extent" -> "WMS_EXTENT"
          [] w = "wfs_extent" -> "WFS_EXTENT"
          [] w = "raster" -> "RASTER"
          [] OTHER -> "FOO"]

Upper(w) == IF w \in DOMAIN UpperTable THEN UpperTable[w] ELSE w

RECURSIVE DropWs(_)
\* String.prototype.trimStart
DropWs(s) == IF s # <<>> /\ IsWs(Head(s)) THEN DropWs(Tail(s)) ELSE s

RECURSIVE DropWsEnd(_)
\* String.prototype.trimEnd
DropWsEnd(s) ==
    IF s # <<>> /\ IsWs(s[Len(s)]) THEN DropWsEnd(SubSeq(s, 1, Len(s) - 1)) ELSE s

\* a plausible slip: only the trailing blanks are removed
TrimEndOnly(s) == DropWsEnd(s)

\* String.prototype.trim
Trim(s) == DropWs(DropWsEnd(s))

\* the leading blanks of a line: line.match(/^\s*/)[0]
LeadingWs(s) == SubSeq(s, 1, Len(s) - Len(DropWs(s)))

RECURSIVE Spaces(_)
\* ' '.repeat(n)
Spaces(n) == IF n <= 0 THEN <<>> ELSE <<SP>> \o Spaces(n - 1)

RECURSIVE ReplaceTabs(_)
\* text.replace(/\t/g, '  ')
ReplaceTabs(s) ==
    IF s = <<>> THEN <<>>
    ELSE (IF Head(s) = TAB THEN <<SP, SP>> ELSE <<Head(s)>>) \o ReplaceTabs(Tail(s))

RECURSIVE SplitLF(_)
\* text.split('\n')
SplitLF(s) ==
    LET P == {p \in 1..Len(s) : s[p] = LF}
        Cut(p) == <<SubSeq(s, 1, p - 1)>> \o SplitLF(SubSeq(s, p + 1, Len(s)))
    IN IF P = {} THEN <<s>> ELSE Cut(CHOOSE p \in P : \A q \in P : p <= q)

\* the CR of a CR LF pair belongs to the separator
StripCR(l) == IF l # <<>> /\ l[Len(l)] = CR THEN SubSeq(l, 1, Len(l) - 1) ELSE l

\* text.split(/\r?\n/)
SplitCRLF(s) ==
    LET ls == SplitLF(s)
    IN [i \in 1..Len(ls) |-> IF i < Len(ls) THEN StripCR(ls[i]) ELSE ls[i]]

RECURSIVE JoinWith(_, _)
\* lines.join(nl)
JoinWith(ls, nl) ==
    IF ls = <<>> THEN <<>>
    ELSE IF Len(ls) = 1 THEN ls[1]
    ELSE ls[1] \o nl \o JoinWith(Tail(ls), nl)

\* no line terminator: what '.' of a regular expression matches
NoLineTerm(s) == \A i \in 1..Len(s) : s[i] \notin {CR, LF}

\* all texts of at most n lines drawn from the line set L, joined by nl
TextsOf(L, n, nl) ==
    UNION {{JoinWith(ls, nl) : ls \in [1..k -> L]} : k \in 0..n}

----------------------------------------------------------------------------
(* Formatter: server/src/lib formatMapfile                                 *)

OPENERS ==
    {"MAP", "LAYER", "CLASS", "STYLE", "LABEL", "PROJECTION", "METADATA",
     "OUTPUTFORMAT", "WEB", "FEATURE", "LEGEND", "SCALEBAR", "QUERYMAP",
     "CLUSTER", "GRID", "LEADER", "SYMBOL", "VALIDATION", "JOIN", "JOINS",
     "GEOTRANSFORM", "COMPOSITE", "PATTERN"}

\* a plausible slip: the pattern without its end anchor, ^(OPENERS)\b
openerLineLoose(trimmed) ==
    /\ trimmed # <<>>
    /\ Upper(trimmed[1]) \in OPENERS

\* trimmed.match(openerLine): ^(OPENERS)\s*(?:#.*)?$ , case-insensitive
openerLine(trimmed) ==
    /\ trimmed # <<>>
    /\ Upper(trimmed[1]) \in OPENERS
    /\ LET rest == DropWs(Tail(trimmed))
       IN \/ rest = <<>>
          \/ rest[1] = HASH /\ NoLineTerm(rest)

\* the name captured by endLine, or Null:  (?:\s*(?:#\s*)?([A-Z0-9_]+))?\s*$
endName(rest) ==
    LET r1 == DropWs(rest)
        r2 == IF r1 # <<>> /\ r1[1] = HASH THEN DropWs(Tail(r1)) ELSE r1
    IN IF Len(r2) = 1 /\ IsWordRun(r2[1]) THEN Upper(r2[1]) ELSE Null

\* trimmed.match(endLine): ^END(?:\s*(?:#\s*)?([A-Z0-9_]+))?\s*$ , case-insensitive
endLine(trimmed) ==
    /\ trimmed # <<>>
    /\ Upper(trimmed[1]) = "END"
    /\ \/ Len(trimmed) = 1
       \/ endName(Tail(trimmed)) # Null

\* the index of the topmost frame called name, or 0
RECURSIVE LastIndexOf(_, _, _)
LastIndexOf(stack, name, i) ==
    IF i = 0 THEN 0
    ELSE IF Upper(stack[i]) = name THEN i
    ELSE LastIndexOf(stack, name, i - 1)

\* realign to the named block, which stays on the stack
Realign(stack, name) ==
    LET idx == IF name = Null THEN 0 ELSE LastIndexOf(stack, name, Len(stack))
    IN IF idx >= 1 THEN SubSeq(stack, 1, idx) ELSE stack

\* if (stack.length > 0) stack.pop()
PopOnce(stack) == IF Len(stack) > 0 THEN SubSeq(stack, 1, Len(stack) - 1) ELSE stack

\* const IND = ' '.repeat(Number(indentSize) > 0 ? Number(indentSize) : 4)
IND(indentSize) == Spaces(IF indentSize > 0 THEN indentSize ELSE 4)

RECURSIVE Repeat(_, _)
\* IND.repeat(n)
Repeat(s, n) == IF n <= 0 THEN <<>> ELSE s \o Repeat(s, n - 1)

\* the widths offered to the formatter; 0 selects the default
IndentSizes == {0, 2}

\* the lines the formatter's inputs are built from
FmtLineSet ==
    { <<"MAP">>,
      <<SP, "layer", SP, HASH, SP, "x">>,
      <<TAB, "NAME", TAB, DQ, "a", DQ>>,
      <<SP, SP, "END", SP, HASH, SP, "LAYER">>,
      <<"END">>,
      <<"END", SP, HASH, SP, "x", SP, "c">>,
      <<SP, HASH, "c", SP>>,
      <<SP>>,
      <<"STYLE", SP, "HILITE">> }

MaxFmtLines == 3

FmtTexts == TextsOf(FmtLineSet, MaxFmtLines, <<LF>>) \cup TextsOf(FmtLineSet, MaxFmtLines, <<CR, LF>>)

FmtIdle ==
    [pc |-> "idle", src |-> <<>>, indentSize |-> 0, lines |-> <<>>, k |-> 0,
     stack |-> <<>>, out |-> <<>>, ret |-> <<>>, prev |-> <<>>, calls |-> 0]


\* formatMapfile is entered: tabs are replaced and the text is split
FormatStart ==
    /\ fmt.pc = "idle"
    /\ fmt' = [fmt EXCEPT !.pc = "loop",
                          !.lines = SplitCRLF(ReplaceTabs(fmt.src)),
                          !.k = 1, !.stack = <<>>, !.out = <<>>,
                          !.calls = @ + 1]
    /\ UNCHANGED <<bal, syn, ext, wfs, srv>>

FmtRaw == fmt.lines[fmt.k]
FmtTrimmed == Trim(FmtRaw)
FmtAtLine == fmt.pc = "loop" /\ fmt.k <= Len(fmt.lines)

\* empty lines
FormatBlank ==
    /\ FmtAtLine
    /\ FmtTrimmed = <<>>
    /\ fmt' = [fmt EXCEPT !.out = Append(@, <<>>), !.k = @ + 1]
    /\ UNCHANGED <<bal, syn, ext, wfs, srv>>

\* full-line comments at the current level
FormatComment ==
    /\ FmtAtLine
    /\ FmtTrimmed # <<>>
    /\ FmtTrimmed[1] = HASH
    /\ fmt' = [fmt EXCEPT
                 !.out = Append(@, Repeat(IND(fmt.indentSize), Len(fmt.stack)) \o FmtTrimmed),
                 !.k = @ + 1]
    /\ UNCHANGED <<bal, syn, ext, wfs, srv>>

\* END handling: realign to the named block, pop once, emit at the new level
FormatEnd ==
    /\ FmtAtLine
    /\ FmtTrimmed # <<>>
    /\ FmtTrimmed[1] # HASH
    /\ endLine(FmtTrimmed)
    /\ LET name == IF Len(FmtTrimmed) = 1 THEN Null ELSE endName(Tail(FmtTrimmed))
           st == PopOnce(Realign(fmt.stack, name))
       IN fmt' = [fmt EXCEPT
                    !.stack = st,
                    !.out = Append(@, Repeat(IND(fmt.indentSize), Len(st)) \o FmtTrimmed),
                    !.k = @ + 1]
    /\ UNCHANGED <<bal, syn, ext, wfs, srv>>

\* any other line is printed at the current level; a standalone opener is pushed
FormatNormal ==
    /\ FmtAtLine
    /\ FmtTrimmed # <<>>
    /\ FmtTrimmed[1] # HASH
    /\ ~endLine(FmtTrimmed)
    /\ fmt' = [fmt EXCEPT
                 !.out = Append(@, Repeat(IND(fmt.indentSize), Len(fmt.stack)) \o FmtTrimmed),
                 !.stack = IF openerLine(FmtTrimmed)
                           THEN Append(@, Upper(FmtTrimmed[1])) ELSE @,
                 !.k = @ + 1]
    /\ UNCHANGED <<bal, syn, ext, wfs, srv>>

\* return out.join('\n')
FormatReturn ==
    /\ fmt.pc = "loop"
    /\ fmt.k > Len(fmt.lines)
    /\ fmt' = [fmt EXCEPT !.pc = "done", !.ret = JoinWith(fmt.out, <<LF>>)]
    /\ UNCHANGED <<bal, syn, ext, wfs, srv>>

\* the caller formats the text it got back, with the same width
FormatAgain ==
    /\ fmt.pc = "done"
    /\ fmt.calls = 1
    /\ fmt' = [fmt EXCEPT !.pc = "idle", !.src = fmt.ret, !.prev = fmt.ret]
    /\ UNCHANGED <<bal, syn, ext, wfs, srv>>

FmtNext ==
    \/ FormatStart
    \/ FormatBlank
    \/ FormatComment
    \/ FormatEnd
    \/ FormatNormal
    \/ FormatReturn
    \/ FormatAgain

RECURSIVE StackAfter(_, _)
\* the stack of formatMapfile when its loop has passed the first n lines
StackAfter(lines, n) ==
    IF n = 0 THEN <<>>
    ELSE LET F(stack, trimmed) ==
                 IF trimmed = <<>> \/ trimmed[1] = HASH THEN stack
                 ELSE IF endLine(trimmed) THEN
                     PopOnce(Realign(stack, IF Len(trimmed) = 1 THEN Null
                                            ELSE endName(Tail(trimmed))))
                 ELSE IF openerLine(trimmed) THEN Append(stack, Upper(trimmed[1]))
                 ELSE stack
         IN F(StackAfter(lines, n - 1), Trim(lines[n]))

\* well-formed texts, as lines, whose END lines all carry a block-name hint
HealTexts ==
    { << <<"MAP">>, <<SP, SP, "LAYER">>, <<SP, SP, SP, SP, "CLASS">>,
         <<SP, SP, SP, SP, "END", SP, HASH, SP, "CLASS">>,
         <<SP, SP, "END", SP, HASH, SP, "LAYER">>, <<"END", SP, HASH, SP, "MAP">> >>,
      << <<"MAP">>, <<SP, SP, "LAYER">>, <<SP, SP, "END", SP, HASH, SP, "LAYER">>,
         <<SP, SP, "LAYER">>, <<SP, SP, "END", SP, "LAYER">>,
         <<"END", SP, HASH, SP, "MAP">> >>,
      << <<"MAP">>, <<SP, SP, HASH, SP, "c">>, <<>>, <<SP, SP, "LAYER">>,
         <<SP, SP, SP, SP, "NAME", SP, DQ, "a", DQ>>,
         <<SP, SP, "END", SP, HASH, SP, "LAYER">>, <<"END", SP, "MAP">> >> }

\* the END lines a text may get in excess
ExtraEnds == { <<"END">>, <<SP, SP, "END", SP, HASH, SP, "LAYER">> }

\* one END line of u left out, or one END line put in
Damages(u) ==
    {[kind |-> "missing", at |-> p, line |-> u[p]] :
        p \in {i \in 1..Len(u) : endLine(Trim(u[i]))}}
    \cup {[kind |-> "extra", at |-> p, line |-> l] : p \in 1..(Len(u) + 1), l \in ExtraEnds}

Damaged(u, d) ==
    IF d.kind = "missing"
    THEN SubSeq(u, 1, d.at - 1) \o SubSeq(u, d.at + 1, Len(u))
    ELSE SubSeq(u, 1, d.at - 1) \o <<d.line>> \o SubSeq(u, d.at, Len(u))

HealDamaged == UNION {{Damaged(u, d) : d \in Damages(u)} : u \in HealTexts}

----------------------------------------------------------------------------
(* Shared tokenizer: tokenizeLine of the two detectors                     *)

\* 1-based column of lexeme i of a line
RECURSIVE ColOf(_, _)
ColOf(line, i) == IF i <= 1 THEN 1 ELSE ColOf(line, i - 1) + Len(line[i - 1])

\* line.indexOf('*/', i): the index of the '*' lexeme, or 0
RECURSIVE IndexOfCommentEnd(_, _)
IndexOfCommentEnd(line, i) ==
    IF i + 1 > Len(line) THEN 0
    ELSE IF line[i] = "*" /\ line[i + 1] = "/" THEN i
    ELSE IndexOfCommentEnd(line, i + 1)

\* the loop over the inside of a quoted string, from lexeme i on:
\* [closed, i (the index after the part consumed), val]
RECURSIVE ScanQuote(_, _, _, _, _)
ScanQuote(line, i, quote, escaped, val) ==
    IF i > Len(line) THEN [closed |-> FALSE, i |-> i, val |-> val]
    ELSE IF escaped THEN ScanQuote(line, i + 1, quote, FALSE, Append(val, line[i]))
    ELSE IF line[i] = "\\" THEN ScanQuote(line, i + 1, quote, TRUE, val)
    ELSE IF line[i] = quote THEN [closed |-> TRUE, i |-> i + 1, val |-> val]
    ELSE ScanQuote(line, i + 1, quote, FALSE, Append(val, line[i]))

LexerState0 == [inBlockComment |-> FALSE, inQuote |-> FALSE, quoteChar |-> ""]

\* the while loop of tokenizeLine, at lexeme i
RECURSIVE TokenizeFrom(_, _, _, _, _, _)
TokenizeFrom(line, i, state, tokens, unclosedQuotes, allowMultilineQuotes) ==
    LET result == [tokens |-> tokens, state |-> state, unclosedQuotes |-> unclosedQuotes]
        ch == line[i]
        next == IF i + 1 <= Len(line) THEN line[i + 1] ELSE ""
    IN
    IF i > Len(line) THEN result
    ELSE IF state.inBlockComment THEN
        LET endIdx == IndexOfCommentEnd(line, i)
        IN IF endIdx = 0 THEN result
           ELSE TokenizeFrom(line, endIdx + 2, [state EXCEPT !.inBlockComment = FALSE],
                             tokens, unclosedQuotes, allowMultilineQuotes)
    ELSE IF state.inQuote THEN
        LET q == ScanQuote(line, i, state.quoteChar, FALSE, <<>>)
        IN IF ~q.closed THEN result
           ELSE TokenizeFrom(line, q.i, [state EXCEPT !.inQuote = FALSE, !.quoteChar = ""],
                             tokens, unclosedQuotes, allowMultilineQuotes)
    ELSE IF ch = HASH THEN result
    ELSE IF ch = "/" /\ next = "/" THEN result
    ELSE IF ch = "/" /\ next = "*" THEN
        TokenizeFrom(line, i + 2, [state EXCEPT !.inBlockComment = TRUE],
                     tokens, unclosedQuotes, allowMultilineQuotes)
    ELSE IF IsWs(ch) THEN
        TokenizeFrom(line, i + 1, state, tokens, unclosedQuotes, allowMultilineQuotes)
    ELSE IF ch \in {DQ, SQ} THEN
        LET q == ScanQuote(line, i + 1, ch, FALSE, <<>>)
            tok == [type |-> "string", value |-> q.val, col |-> ColOf(line, i),
                    quote |-> ch, closed |-> q.closed]
            uq == [col |-> ColOf(line, i), quote |-> ch]
        IN IF q.closed THEN
               TokenizeFrom(line, q.i, state, Append(tokens, tok), unclosedQuotes,
                            allowMultilineQuotes)
           ELSE IF allowMultilineQuotes THEN
               TokenizeFrom(line, q.i, [state EXCEPT !.inQuote = TRUE, !.quoteChar = ch],
                            Append(tokens, tok), Append(unclosedQuotes, uq),
                            allowMultilineQuotes)
           ELSE [tokens |-> Append(tokens, tok), state |-> state,
                 unclosedQuotes |-> Append(unclosedQuotes, uq)]
    ELSE IF IsWord(ch) THEN
        TokenizeFrom(line, i + 1, state,
                     Append(tokens, [type |-> "word", text |-> ch, col |-> ColOf(line, i)]),
                     unclosedQuotes, allowMultilineQuotes)
    ELSE TokenizeFrom(line, i + 1, state, tokens, unclosedQuotes, allowMultilineQuotes)

\* a plausible slip: the option is not read and quotes span lines
tokenizeLineSpanning(line, state, allowMultilineQuotes) ==
    TokenizeFrom(line, 1, state, <<>>, <<>>, TRUE)

\* a plausible slip: the lexer state is not carried from line to line
tokenizeLineFresh(line, state, allowMultilineQuotes) ==
    TokenizeFrom(line, 1, LexerState0, <<>>, <<>>, allowMultilineQuotes)

tokenizeLine(line, state, allowMultilineQuotes) ==
    TokenizeFrom(line, 1, state, <<>>, <<>>, allowMultilineQuotes)

\* /^[A-Z_][A-Z0-9_]*$/ on a word of the alphabet
isAllCapsIdentifier(s) == IsWord(s) /\ s \notin DOMAIN UpperTable

\* text.replace(/\r\n?/g, '\n').split('\n')
RECURSIVE NormalizeEol(_)
NormalizeEol(s) ==
    IF s = <<>> THEN <<>>
    ELSE IF Head(s) = CR THEN
        <<LF>> \o NormalizeEol(IF Len(s) >= 2 /\ s[2] = LF THEN Tail(Tail(s)) ELSE Tail(s))
    ELSE <<Head(s)>> \o NormalizeEol(Tail(s))

\* tokens.filter(t => t.type === 'word')
RECURSIVE WordsOf(_)
WordsOf(tokens) ==
    IF tokens = <<>> THEN <<>>
    ELSE (IF Head(tokens).type = "word" THEN <<Head(tokens)>> ELSE <<>>) \o WordsOf(Tail(tokens))

----------------------------------------------------------------------------
(* Balance Detector: analyze                                               *)

DEFAULT_BLOCK_OPENERS ==
    {"MAP", "LAYER", "CLASS", "STYLE", "LABEL", "LEADER", "WEB", "METADATA",
     "PROJECTION", "OUTPUTFORMAT", "SYMBOL", "QUERYMAP", "REFERENCE", "SCALEBAR",
     "LEGEND", "VALIDATION", "JOIN", "CLUSTER", "COMPOSITE", "FEATURE", "GRID",
     "IDENTIFY", "PATTERN", "POINTS"}

\* first is the upper-cased first word of the line
isKnownOpener(first) == first \in DEFAULT_BLOCK_OPENERS

isHeuristicOpener(wordTokens, first, enableHeuristicOpeners) ==
    /\ enableHeuristicOpeners
    /\ Len(wordTokens) = 1
    /\ isAllCapsIdentifier(first)
    /\ Len(first) >= 3
    /\ first # "END"

\* a plausible slip: every END token is honoured, shouldHonor left out
RECURSIVE HandleEndsAll(_, _, _, _, _, _, _)
HandleEndsAll(wordTokens, tIdx, honorInline, stack, extraEnds, lineNo, excerpt) ==
    IF tIdx > Len(wordTokens) THEN [stack |-> stack, extraEnds |-> extraEnds]
    ELSE LET tok == wordTokens[tIdx]
         IN IF Upper(tok.text) # "END"
            THEN HandleEndsAll(wordTokens, tIdx + 1, honorInline, stack, extraEnds,
                               lineNo, excerpt)
            ELSE IF Len(stack) = 0
            THEN HandleEndsAll(wordTokens, tIdx + 1, honorInline, stack,
                               Append(extraEnds, [line |-> lineNo, col |-> tok.col,
                                                  excerpt |-> excerpt]),
                               lineNo, excerpt)
            ELSE HandleEndsAll(wordTokens, tIdx + 1, honorInline,
                               SubSeq(stack, 1, Len(stack) - 1), extraEnds, lineNo, excerpt)

\* the loop over the END tokens of one line, from word tIdx on
RECURSIVE HandleEnds(_, _, _, _, _, _, _)
HandleEnds(wordTokens, tIdx, honorInline, stack, extraEnds, lineNo, excerpt) ==
    IF tIdx > Len(wordTokens) THEN [stack |-> stack, extraEnds |-> extraEnds]
    ELSE LET tok == wordTokens[tIdx]
             shouldHonor == tIdx = 1 \/ honorInline
         IN IF Upper(tok.text) # "END" \/ ~shouldHonor
            THEN HandleEnds(wordTokens, tIdx + 1, honorInline, stack, extraEnds, lineNo, excerpt)
            ELSE IF Len(stack) = 0
            THEN HandleEnds(wordTokens, tIdx + 1, honorInline, stack,
                            Append(extraEnds, [line |-> lineNo, col |-> tok.col,
                                               excerpt |-> excerpt]),
                            lineNo, excerpt)
            ELSE HandleEnds(wordTokens, tIdx + 1, honorInline,
                            SubSeq(stack, 1, Len(stack) - 1), extraEnds, lineNo, excerpt)

\* the lines the detector's inputs are built from
BalLineSet ==
    { <<"MAP">>,
      <<SP, "LAYER", SP, HASH, SP, "x">>,
      <<SP, SP, "NAME", SP, DQ, "a", DQ>>,
      <<"SIZE", SP, "400", SP, "300">>,
      <<"STYLE", SP, "HILITE">>,
      <<"PATTERN", SP, "10", SP, "10", SP, "END">>,
      <<SP, SP, "NAME", SP, DQ, "a", DQ, SP, "END">>,
      <<"END">>,
      <<"FOO">>,
      <<"foo">>,
      <<"foo", SP, "/", "*", SP, "END">>,
      <<"END", SP, "*", "/", SP, "END">> }

MaxBalLines == 3

\* the balanced mapfile MAP / LAYER / NAME "a" / END / END
BalancedRoundtrip ==
    <<"MAP", LF, SP, SP, "LAYER", LF, SP, SP, SP, SP, "NAME", SP, DQ, "a", DQ, LF,
      SP, SP, "END", LF, "END", LF>>

BalTexts == TextsOf(BalLineSet, MaxBalLines, <<LF>>) \cup {BalancedRoundtrip}

BalOptions ==
    [enableHeuristicOpeners : BOOLEAN, allowInlineEndWithoutOpener : BOOLEAN,
     allowMultilineQuotes : {FALSE}]

BalDefaults ==
    [enableHeuristicOpeners |-> TRUE, allowInlineEndWithoutOpener |-> FALSE,
     allowMultilineQuotes |-> FALSE]

BalIdle ==
    [pc |-> "idle", text |-> <<>>, options |-> BalDefaults, lines |-> <<>>, idx |-> 0,
     stack |-> <<>>, extraEnds |-> <<>>, state |-> LexerState0,
     missingEnds |-> <<>>, ok |-> FALSE]


\* analyze is entered: line ends are normalised and the text is split
AnalyzeStart ==
    /\ bal.pc = "idle"
    /\ bal' = [bal EXCEPT !.pc = "loop", !.lines = SplitLF(NormalizeEol(bal.text)),
                          !.idx = 0]
    /\ UNCHANGED <<fmt, syn, ext, wfs, srv>>

BalAtLine == bal.pc = "loop" /\ bal.idx < Len(bal.lines)
BalLine == bal.lines[bal.idx + 1]
BalOut == tokenizeLine(BalLine, bal.state, bal.options.allowMultilineQuotes)
BalWordTokens == WordsOf(BalOut.tokens)
BalFirst == Upper(BalWordTokens[1].text)
BalOpenedThisLine ==
    \/ isKnownOpener(BalFirst)
    \/ isHeuristicOpener(BalWordTokens, BalFirst, bal.options.enableHeuristicOpeners)

\* a line without word tokens only moves the lexer state
AnalyzeSkip ==
    /\ BalAtLine
    /\ BalWordTokens = <<>>
    /\ bal' = [bal EXCEPT !.state = BalOut.state, !.idx = @ + 1]
    /\ UNCHANGED <<fmt, syn, ext, wfs, srv>>

\* a line with word tokens: push if it opens, then honour its END tokens
AnalyzeLine ==
    /\ BalAtLine
    /\ BalWordTokens # <<>>
    /\ LET pushed == IF BalOpenedThisLine
                     THEN Append(bal.stack, [type |-> BalFirst, line |-> bal.idx + 1,
                                             col |-> BalWordTokens[1].col])
                     ELSE bal.stack
           r == HandleEnds(BalWordTokens, 1,
                           bal.options.allowInlineEndWithoutOpener \/ BalOpenedThisLine,
                           pushed, bal.extraEnds, bal.idx + 1, Trim(BalLine))
       IN bal' = [bal EXCEPT !.state = BalOut.state, !.stack = r.stack,
                             !.extraEnds = r.extraEnds, !.idx = @ + 1]
    /\ UNCHANGED <<fmt, syn, ext, wfs, srv>>

RECURSIVE Reversed(_)
\* a plausible slip: stack.slice().reverse()
Reversed(arr) == IF arr = <<>> THEN <<>> ELSE Append(Reversed(Tail(arr)), Head(arr))

\* Array.prototype.slice with no arguments: a copy in the same order
Slice(arr) == arr

\* end of file: what is still open is missing its END
AnalyzeReturn ==
    /\ bal.pc = "loop"
    /\ bal.idx >= Len(bal.lines)
    /\ bal' = [bal EXCEPT !.pc = "done", !.missingEnds = Slice(bal.stack),
                          !.ok = (Len(bal.extraEnds) = 0 /\ Len(bal.stack) = 0)]
    /\ UNCHANGED <<fmt, syn, ext, wfs, srv>>

BalNext ==
    \/ AnalyzeStart
    \/ AnalyzeSkip
    \/ AnalyzeLine
    \/ AnalyzeReturn

----------------------------------------------------------------------------
(* Syntax/Context Checker: syntaxisErrorDetector                           *)

BLOCKS ==
    {"MAP", "LAYER", "CLASS", "STYLE", "WEB", "METADATA", "PROJECTION", "LABEL",
     "OUTPUTFORMAT", "SYMBOL", "LEGEND", "SCALEBAR", "QUERYMAP", "REFERENCE",
     "CLUSTER", "GRID", "COMPOSITE"}

ALLOWED_PARENTS ==
    [b \in BLOCKS |->
        CASE b = "MAP" -> {"ROOT"}
          [] b \in {"LAYER", "WEB", "OUTPUTFORMAT", "SYMBOL", "LEGEND", "SCALEBAR",
                    "QUERYMAP", "REFERENCE"} -> {"MAP"}
          [] b \in {"CLASS", "CLUSTER", "GRID", "COMPOSITE"} -> {"LAYER"}
          [] b = "STYLE" -> {"CLASS", "LABEL"}
          [] b = "LABEL" -> {"CLASS"}
          [] b = "METADATA" -> {"MAP", "LAYER", "CLASS", "WEB", "OUTPUTFORMAT"}
          [] OTHER -> {"MAP", "LAYER"}]

\* the contexts whose first tokens are checked (METADATA and PROJECTION are null)
CheckedContexts ==
    {"ROOT", "MAP", "LAYER", "CLASS", "STYLE", "LABEL", "WEB", "OUTPUTFORMAT",
     "SYMBOL", "LEGEND", "SCALEBAR", "QUERYMAP", "REFERENCE", "CLUSTER", "GRID",
     "COMPOSITE"}

ALLOWED_FIRST_TOKENS ==
    [c \in CheckedContexts |->
        CASE c = "ROOT" -> {"MAP"}
          [] c = "MAP" ->
               {"NAME", "STATUS", "EXTENT", "UNITS", "SIZE", "IMAGETYPE", "IMAGECOLOR",
                "SHAPEPATH", "FONTSET", "SYMBOLSET", "CONFIG", "DEBUG",
                "OUTPUTFORMAT", "SYMBOL", "WEB", "LAYER",
                "LEGEND", "SCALEBAR", "QUERYMAP", "REFERENCE",
                "PROJECTION", "METADATA",
                "MAXSIZE", "RESOLUTION", "DEFRESOLUTION", "ANGLE", "TRANSPARENT",
                "END", "INCLUDE"}
          [] c = "LAYER" ->
               {"NAME", "TYPE", "STATUS", "DATA", "CONNECTION", "CONNECTIONTYPE",
                "FILTER", "FILTERITEM", "FILTERTYPE",
                "CLASSITEM", "LABELITEM", "GROUP",
                "MINSCALEDENOM", "MAXSCALEDENOM",
                "MINDISTANCE", "MAXDISTANCE",
                "OPACITY", "TRANSPARENCY",
                "PROCESSING", "VALIDATION", "TEMPLATE", "HEADER", "FOOTER",
                "TOLERANCE", "TOLERANCEUNITS",
                "PROJECTION", "METADATA",
                "CLASS", "CLUSTER", "GRID", "COMPOSITE",
                "END", "INCLUDE"}
          [] c = "CLASS" ->
               {"NAME", "TITLE", "GROUP", "EXPRESSION", "TEXT",
                "MINSCALEDENOM", "MAXSCALEDENOM", "STYLE", "LABEL",
                "TEMPLATE", "KEYIMAGE", "METADATA", "OPACITY", "END", "INCLUDE"}
          [] c = "STYLE" ->
               {"COLOR", "OUTLINECOLOR", "WIDTH", "MINWIDTH", "MAXWIDTH",
                "SIZE", "MINSIZE", "MAXSIZE", "SYMBOL", "PATTERN", "GAP", "ANGLE",
                "OPACITY", "END"}
          [] c = "LABEL" ->
               {"TEXT", "TYPE", "FONT", "SIZE", "MINSIZE", "MAXSIZE",
                "COLOR", "OUTLINECOLOR", "SHADOWCOLOR", "SHADOWSIZE",
                "POSITION", "OFFSET", "ANGLE", "WRAP", "BUFFER",
                "MINSCALEDENOM", "MAXSCALEDENOM", "STYLE", "END"}
          [] c = "WEB" ->
               {"IMAGEPATH", "IMAGEURL", "TEMPLATE", "HEADER", "FOOTER", "ERROR",
                "METADATA", "END"}
          [] c = "OUTPUTFORMAT" ->
               {"NAME", "DRIVER", "MIMETYPE", "IMAGEMODE", "EXTENSION",
                "FORMATOPTION", "TRANSPARENT", "END", "METADATA"}
          [] c = "SYMBOL" -> {"NAME", "TYPE", "IMAGE", "POINTS", "FILLED", "END"}
          [] c = "LEGEND" -> {"STATUS", "KEYSIZE", "LABEL", "TEMPLATE", "END"}
          [] c = "SCALEBAR" -> {"STATUS", "SIZE", "INTERVALS", "UNITS", "COLOR", "END"}
          [] c = "QUERYMAP" -> {"STATUS", "SIZE", "COLOR", "STYLE", "END"}
          [] c = "REFERENCE" -> {"STATUS", "IMAGE", "EXTENT", "SIZE", "COLOR", "END"}
          [] c = "CLUSTER" -> {"MAXDISTANCE", "REGION", "BUFFER", "END"}
          [] c = "GRID" -> {"MINARCS", "MAXARCS", "MININTERVAL", "MAXINTERVAL", "END"}
          [] OTHER -> {"OPACITY", "COMPOP", "END"}]

GLOBAL_KNOWN ==
    (CheckedContexts \ {"ROOT"}) \cup {"METADATA", "PROJECTION"}
    \cup UNION {ALLOWED_FIRST_TOKENS[c] :
                  c \in {"ROOT", "MAP", "LAYER", "CLASS", "STYLE", "LABEL", "WEB",
                         "OUTPUTFORMAT"}}
    \cup {"END"}

\* stack[stack.length - 1]?.type || 'ROOT'
currentContext(stack) == IF stack = <<>> THEN "ROOT" ELSE stack[Len(stack)].type

isAllowedParent(child, parent) ==
    IF child \notin DOMAIN ALLOWED_PARENTS THEN TRUE ELSE parent \in ALLOWED_PARENTS[child]

\* /^[A-Z_][A-Z0-9_]*$/ on a word of the alphabet
looksUpperKeyword(tokenValue) == IsWord(tokenValue) /\ tokenValue \notin DOMAIN UpperTable

DefaultSoftSuppressionLines == 25

Max(a, b) == IF a >= b THEN a ELSE b

Min(a, b) == IF a <= b THEN a ELSE b

\* a plausible slip: the SOFT issue on the last line of the window is let through
addIssueStrict(r, issue) ==
    IF issue.severity = "SOFT" /\ issue.lineNo < r.suppressSoftUntilLine
    THEN [r EXCEPT !.suppressedSoftCount = @ + 1]
    ELSE [r EXCEPT !.issues = Append(@, issue),
                   !.suppressSoftUntilLine =
                       IF issue.severity = "HARD"
                       THEN Max(@, issue.lineNo + r.softSuppressionLines) ELSE @]

\* a plausible slip: a suppressed SOFT issue is dropped without being counted
addIssueUncounted(r, issue) ==
    IF issue.severity = "SOFT" /\ issue.lineNo <= r.suppressSoftUntilLine
    THEN r
    ELSE [r EXCEPT !.issues = Append(@, issue),
                   !.suppressSoftUntilLine =
                       IF issue.severity = "HARD"
                       THEN Max(@, issue.lineNo + r.softSuppressionLines) ELSE @]

\* cascade control; r is the state of the scan
addIssue(r, issue) ==
    IF issue.severity = "SOFT" /\ issue.lineNo <= r.suppressSoftUntilLine
    THEN [r EXCEPT !.suppressedSoftCount = @ + 1]
    ELSE [r EXCEPT !.issues = Append(@, issue),
                   !.suppressSoftUntilLine =
                       IF issue.severity = "HARD"
                       THEN Max(@, issue.lineNo + r.softSuppressionLines) ELSE @]

Issue(lineNo, col, kind, severity) ==
    [lineNo |-> lineNo, col |-> col, kind |-> kind, severity |-> severity]

\* one HARD MISSING_QUOTE per unclosed quote of the line
RECURSIVE AddQuoteIssues(_, _, _)
AddQuoteIssues(r, unclosedQuotes, lineNo) ==
    IF unclosedQuotes = <<>> THEN r
    ELSE AddQuoteIssues(addIssue(r, Issue(lineNo, Head(unclosedQuotes).col,
                                          "MISSING_QUOTE", "HARD")),
                        Tail(unclosedQuotes), lineNo)

\* the kinds in the order the report groups them
KindOrder ==
    <<"NESTING", "END_MISMATCH", "MISSING_END", "MISSING_QUOTE", "UNKNOWN_KEYWORD",
      "CONTEXT", "METADATA_FORMAT">>

\* groupByKind, flattened: the issues of arr kind by kind, from kind k on
RECURSIVE groupByKind(_, _)
groupByKind(arr, k) ==
    IF k > Len(KindOrder) THEN <<>>
    ELSE LET OfKind(it) == it.kind = KindOrder[k]
         IN SelectSeq(arr, OfKind) \o groupByKind(arr, k + 1)

\* no report built yet
NoReport == [clean |-> FALSE, total |-> 0, hard |-> <<>>, soft |-> <<>>,
             suppressedNote |-> 0]

\* the report: the headline count, the HARD section, the SOFT section, and
\* the note with the number of suppressed SOFT warnings (0: no note)
buildReport(issues, suppressedSoftCount) ==
    LET IsHard(i) == i.severity = "HARD"
        IsSoft(i) == i.severity = "SOFT"
    IN IF issues = <<>> THEN [NoReport EXCEPT !.clean = TRUE]
       ELSE [clean |-> FALSE,
             total |-> Len(issues),
             hard |-> groupByKind(SelectSeq(issues, IsHard), 1),
             soft |-> groupByKind(SelectSeq(issues, IsSoft), 1),
             suppressedNote |-> IF suppressedSoftCount > 0 THEN suppressedSoftCount
                                ELSE 0]

\* the lines the checker's inputs are built from
SynLineSet ==
    { <<"MAP">>,
      <<SP, "LAYER", SP, HASH, "c">>,
      <<"CLASS">>,
      <<"END">>,
      <<"FOO">>,
      <<"NAME", SP, DQ, "a">>,
      <<"STYLE", SP, "HILITE">>,
      <<"METADATA">>,
      <<"PROJECTION">>,
      <<DQ, "k", DQ, SP, DQ, "v", DQ>>,
      <<>> }

MaxSynLines == 3

SynTexts == TextsOf(SynLineSet, MaxSynLines, <<LF>>)

\* the values of options.softSuppressionLines
SoftSuppressionOptions == {0, 1, DefaultSoftSuppressionLines}

SynIdle ==
    [pc |-> "idle", text |-> <<>>, softSuppressionLines |-> DefaultSoftSuppressionLines,
     allowMultilineQuotes |-> FALSE, lines |-> <<>>, idx |-> 0,
     stack |-> <<[type |-> "ROOT", line |-> 0, col |-> 0]>>,
     issues |-> <<>>, suppressSoftUntilLine |-> 0, suppressedSoftCount |-> 0,
     state |-> LexerState0, report |-> NoReport]

\* the detector is entered: CR LF and CR become LF and the text is split
DetectStart ==
    /\ syn.pc = "idle"
    /\ syn' = [syn EXCEPT !.pc = "loop", !.lines = SplitLF(NormalizeEol(syn.text)),
                          !.idx = 0]
    /\ UNCHANGED <<fmt, bal, ext, wfs, srv>>

SynAtLine == syn.pc = "loop" /\ syn.idx < Len(syn.lines)
SynLineNo == syn.idx + 1
SynRawLine == syn.lines[syn.idx + 1]
SynOut == tokenizeLine(SynRawLine, syn.state, syn.allowMultilineQuotes)
SynHasTokens == SynAtLine /\ SynOut.tokens # <<>>
SynFirstTok == SynOut.tokens[1]
SynCtx == currentContext(syn.stack)
SynKw == Upper(SynFirstTok.text)
SynIsWordLine == SynHasTokens /\ SynFirstTok.type = "word"

\* the scan state after the line's unclosed quotes were reported
SynAfterQuotes ==
    [AddQuoteIssues(syn, SynOut.unclosedQuotes, SynLineNo) EXCEPT
        !.state = SynOut.state, !.idx = @ + 1]

\* empty line, or only comments
DetectSkip ==
    /\ SynAtLine
    /\ SynOut.tokens = <<>>
    /\ syn' = [syn EXCEPT !.state = SynOut.state, !.idx = @ + 1]
    /\ UNCHANGED <<fmt, bal, ext, wfs, srv>>

\* a plausible slip: the ROOT frame is popped like any other
DetectEndPopsRoot ==
    /\ SynIsWordLine
    /\ SynKw = "END"
    /\ syn' = IF Len(syn.stack) < 1
              THEN addIssue(SynAfterQuotes,
                            Issue(SynLineNo, SynFirstTok.col, "END_MISMATCH", "HARD"))
              ELSE [SynAfterQuotes EXCEPT !.stack = SubSeq(@, 1, Len(@) - 1)]
    /\ UNCHANGED <<fmt, bal, ext, wfs, srv>>

\* END as the first token of the line
DetectEnd ==
    /\ SynIsWordLine
    /\ SynKw = "END"
    /\ syn' = IF Len(syn.stack) <= 1
              THEN addIssue(SynAfterQuotes,
                            Issue(SynLineNo, SynFirstTok.col, "END_MISMATCH", "HARD"))
              ELSE [SynAfterQuotes EXCEPT !.stack = SubSeq(@, 1, Len(@) - 1)]
    /\ UNCHANGED <<fmt, bal, ext, wfs, srv>>

\* a block keyword as the first token of the line
DetectOpener ==
    /\ SynIsWordLine
    /\ SynKw # "END"
    /\ SynKw \in BLOCKS
    /\ LET r1 == IF ~isAllowedParent(SynKw, SynCtx)
                 THEN addIssue(SynAfterQuotes,
                               Issue(SynLineNo, SynFirstTok.col, "NESTING", "HARD"))
                 ELSE SynAfterQuotes
           r2 == IF SynCtx \in DOMAIN ALLOWED_FIRST_TOKENS
                    /\ SynKw \notin ALLOWED_FIRST_TOKENS[SynCtx]
                 THEN addIssue(r1, Issue(SynLineNo, SynFirstTok.col, "CONTEXT", "SOFT"))
                 ELSE r1
       IN syn' = [r2 EXCEPT !.stack = Append(@, [type |-> SynKw, line |-> SynLineNo,
                                                 col |-> SynFirstTok.col])]
    /\ UNCHANGED <<fmt, bal, ext, wfs, srv>>

\* a word line inside METADATA: "key" "value" is expected
DetectMetadata ==
    /\ SynIsWordLine
    /\ SynKw # "END"
    /\ SynKw \notin BLOCKS
    /\ SynCtx = "METADATA"
    /\ LET vTok == SynOut.tokens[2]
           kOk == ~looksUpperKeyword(SynKw)
           vOk == vTok.type \in {"string", "word"}
       IN syn' = IF Len(SynOut.tokens) >= 2 /\ (~kOk \/ ~vOk)
                 THEN addIssue(SynAfterQuotes,
                               Issue(SynLineNo, SynFirstTok.col, "METADATA_FORMAT", "SOFT"))
                 ELSE SynAfterQuotes
    /\ UNCHANGED <<fmt, bal, ext, wfs, srv>>

\* a word line inside PROJECTION is not validated
DetectProjection ==
    /\ SynIsWordLine
    /\ SynKw # "END"
    /\ SynKw \notin BLOCKS
    /\ SynCtx = "PROJECTION"
    /\ syn' = SynAfterQuotes
    /\ UNCHANGED <<fmt, bal, ext, wfs, srv>>

\* any other word line: context check, then unknown-keyword check
DetectKeyword ==
    /\ SynIsWordLine
    /\ SynKw # "END"
    /\ SynKw \notin BLOCKS
    /\ SynCtx \notin {"METADATA", "PROJECTION"}
    /\ LET r1 == IF /\ SynCtx \in DOMAIN ALLOWED_FIRST_TOKENS
                    /\ looksUpperKeyword(SynKw)
                    /\ SynKw \notin ALLOWED_FIRST_TOKENS[SynCtx]
                 THEN addIssue(SynAfterQuotes,
                               Issue(SynLineNo, SynFirstTok.col, "CONTEXT", "SOFT"))
                 ELSE SynAfterQuotes
           r2 == IF looksUpperKeyword(SynKw) /\ SynKw \notin GLOBAL_KNOWN
                 THEN addIssue(r1, Issue(SynLineNo, SynFirstTok.col,
                                         "UNKNOWN_KEYWORD", "SOFT"))
                 ELSE r1
       IN syn' = r2
    /\ UNCHANGED <<fmt, bal, ext, wfs, srv>>

\* the first token is a quoted string: only the quote check applies
DetectString ==
    /\ SynHasTokens
    /\ SynFirstTok.type = "string"
    /\ syn' = SynAfterQuotes
    /\ UNCHANGED <<fmt, bal, ext, wfs, srv>>

\* end of file: blocks left open give one HARD MISSING_END at the last line;
\* then the report is built
DetectReturn ==
    /\ syn.pc = "loop"
    /\ syn.idx >= Len(syn.lines)
    /\ LET r == IF Len(syn.stack) > 1
                THEN addIssue(syn, Issue(Len(syn.lines), 0, "MISSING_END", "HARD"))
                ELSE syn
       IN syn' = [r EXCEPT !.pc = "done",
                           !.report = buildReport(r.issues, r.suppressedSoftCount)]
    /\ UNCHANGED <<fmt, bal, ext, wfs, srv>>

SynNext ==
    \/ DetectStart
    \/ DetectSkip
    \/ DetectEnd
    \/ DetectOpener
    \/ DetectMetadata
    \/ DetectProjection
    \/ DetectKeyword
    \/ DetectString
    \/ DetectReturn

----------------------------------------------------------------------------
(* Extent Synchronizer: ExtentSyncService, with the viewport and the       *)
(* projection service it reads.  Line indexes are those of the source      *)
(* plus one; 0 stands for the -1 of findFirstBlockStart.  Coordinates are  *)
(* finite integers.                                                        *)

\* /^\s*#/.test(line)
isComment(line) == LET t == DropWs(line) IN t # <<>> /\ Head(t) = HASH

\* new RegExp('^\\s*' + keyword + '\\b', 'i').test(line)
StartsWithKeyword(line, keyword) ==
    LET t == DropWs(line) IN t # <<>> /\ Upper(Head(t)) = keyword

BLOCK_STARTERS ==
    {"MAP", "LAYER", "CLASS", "STYLE", "LABEL", "WEB", "LEGEND", "SCALEBAR",
     "QUERYMAP", "REFERENCE", "GRID", "PROJECTION", "METADATA", "OUTPUTFORMAT",
     "SYMBOL", "FEATURE", "CLUSTER", "JOIN", "VALIDATION", "COMPOSITE", "UNION",
     "POINTS"}

\* the keyword alone on the line, a trailing comment allowed
isBlockStart(line) ==
    LET t == DropWs(line)
    IN /\ ~isComment(line)
       /\ t # <<>>
       /\ Upper(Head(t)) \in BLOCK_STARTERS
       /\ LET rest == Trim(Tail(t)) IN rest = <<>> \/ Head(rest) = HASH

findFirstBlockStart(lines, keyword) ==
    LET S == {i \in 1..Len(lines) :
                ~isComment(lines[i]) /\ StartsWithKeyword(lines[i], keyword)}
    IN IF S = {} THEN 0 ELSE CHOOSE i \in S : \A j \in S : i <= j

findLastEndAfter(lines, startLine) ==
    LET S == {i \in (startLine + 1)..Len(lines) :
                ~isComment(lines[i]) /\ StartsWithKeyword(lines[i], "END")}
    IN IF S = {} THEN startLine ELSE CHOOSE i \in S : \A j \in S : i >= j

RECURSIVE BlockEndFrom(_, _, _, _)
\* the loop of findBlockEnd, at line i with the depth reached so far
BlockEndFrom(lines, startLine, i, depth) ==
    IF i > Len(lines) THEN startLine
    ELSE IF isComment(lines[i]) THEN BlockEndFrom(lines, startLine, i + 1, depth)
    ELSE IF StartsWithKeyword(lines[i], "END") THEN
        (IF depth = 1 THEN i ELSE BlockEndFrom(lines, startLine, i + 1, depth - 1))
    ELSE BlockEndFrom(lines, startLine, i + 1,
                      IF isBlockStart(lines[i]) THEN depth + 1 ELSE depth)

findBlockEnd(lines, startLine) == BlockEndFrom(lines, startLine, startLine + 1, 1)

RECURSIVE DepthAt(_, _, _)
\* the depth counter of the depth-1 scans when they reach line i of the
\* block opened at line start: END decrements, a block start increments
DepthAt(lines, start, i) ==
    IF i <= start + 1 THEN 1
    ELSE LET d == DepthAt(lines, start, i - 1)
             l == lines[i - 1]
         IN IF isComment(l) THEN d
            ELSE IF StartsWithKeyword(l, "END") THEN d - 1
            ELSE IF isBlockStart(l) THEN d + 1
            ELSE d

\* the first line of start+1 .. end-1 that a depth-1 scan for the keyword
\* stops at, 0 if there is none
FirstDepth1(lines, start, end, keyword) ==
    LET S == {i \in (start + 1)..(end - 1) :
                /\ ~isComment(lines[i])
                /\ ~StartsWithKeyword(lines[i], "END")
                /\ ~isBlockStart(lines[i])
                /\ DepthAt(lines, start, i) = 1
                /\ StartsWithKeyword(lines[i], keyword)}
    IN IF S = {} THEN 0 ELSE CHOOSE i \in S : \A j \in S : i <= j

RECURSIVE SkipWs(_, _)
\* the index of the first non-blank lexeme of s at or after p
SkipWs(s, p) == IF p <= Len(s) /\ IsWs(s[p]) THEN SkipWs(s, p + 1) ELSE p

\* the digits of the first match of /KW\s*SEP\s*(\d+)/i in s, Null if none:
\* /EPSG\s*:\s*(\d+)/i and /\bsrid\s*=\s*(\d+)/i
FindCode(s, kw, sep) ==
    LET Hit(p) ==
            LET q == SkipWs(s, p + 1)
                r == SkipWs(s, q + 1)
            IN /\ Upper(s[p]) = kw
               /\ q <= Len(s) /\ s[q] = sep
               /\ r <= Len(s) /\ s[r] \in NumRuns
        S == {p \in 1..Len(s) : Hit(p)}
    IN IF S = {} THEN Null
       ELSE LET p == CHOOSE x \in S : \A y \in S : x <= y
            IN s[SkipWs(s, SkipWs(s, p + 1) + 1)]

\* lines.slice(a, b + 1).join('\n')
SliceText(lines, a, b) ==
    IF a > b THEN <<>>
    ELSE JoinWith(SubSeq(lines, a, IF b > Len(lines) THEN Len(lines) ELSE b), <<LF>>)

extractEpsgFromProjection(lines, start, end) ==
    LET S == {i \in (start + 1)..end :
                ~isComment(lines[i]) /\ StartsWithKeyword(lines[i], "PROJECTION")}
        Epsg(epsg) == IF epsg = Null THEN Null ELSE "EPSG:" \o epsg
        In(projStart) ==
            Epsg(FindCode(SliceText(lines, projStart, findBlockEnd(lines, projStart)),
                          "EPSG", ":"))
    IN IF S = {} THEN Null ELSE In(CHOOSE i \in S : \A j \in S : i <= j)

extractSrid(lines, start, end) == FindCode(SliceText(lines, start, end), "SRID", "=")

\* "key"\s*"([^"]+)" on the block, then EPSG:n in the upper-cased value
extractEpsgFromMetadata(lines, start, end, key) ==
    LET s == SliceText(lines, start, end)
        Close(p) == LET S == {c \in (p + 1)..Len(s) : s[c] = DQ}
                    IN IF S = {} THEN 0 ELSE CHOOSE c \in S : \A d \in S : c <= d
        Hit(p) ==
            /\ p + 2 <= Len(s)
            /\ s[p] = DQ /\ Upper(s[p + 1]) = key /\ s[p + 2] = DQ
            /\ LET q == SkipWs(s, p + 3)
               IN q <= Len(s) /\ s[q] = DQ /\ Close(q) > q + 1
        S == {p \in 1..Len(s) : Hit(p)}
    IN IF S = {} THEN Null
       ELSE LET p == CHOOSE x \in S : \A y \in S : x <= y
                q == SkipWs(s, p + 3)
                val == [k \in 1..(Close(q) - q - 1) |-> Upper(s[q + k])]
                epsg == FindCode(val, "EPSG", ":")
            IN IF epsg = Null THEN Null ELSE "EPSG:" \o epsg

extractCrsFromBlock(lines, start, end) ==
    LET Or(a, b) == IF a # Null THEN a ELSE b
        Epsg(srid) == IF srid # Null THEN "EPSG:" \o srid ELSE Null
    IN Or(extractEpsgFromProjection(lines, start, end),
          Or(Epsg(extractSrid(lines, start, end)),
             Or(extractEpsgFromMetadata(lines, start, end, "WFS_SRS"),
                extractEpsgFromMetadata(lines, start, end, "WMS_SRS"))))

extractFirstLayerCrs(lines, mapStart, mapEnd) ==
    LET S == {i \in (mapStart + 1)..(mapEnd - 1) :
                /\ ~isComment(lines[i]) /\ StartsWithKeyword(lines[i], "LAYER")
                /\ findBlockEnd(lines, i) > i}
        Crs(layerStart) ==
            extractCrsFromBlock(lines, layerStart, findBlockEnd(lines, layerStart))
    IN IF S = {} THEN Null ELSE Crs(CHOOSE i \in S : \A j \in S : i <= j)

\* what proj4 does for the run: not loaded (or throwing, projectPoint then
\* returns its input), or a transform that reverses the order on both axes
Proj4Kinds == {"missing", "mirror"}

\* ProjectionService.projectPoint
projectPoint(proj4, from, to, xy) ==
    IF from = to \/ proj4 = "missing" THEN xy ELSE <<-xy[1], -xy[2]>>

\* ProjectionService.projectExtent; the identifiers of the model are upper case
projectExtent(proj4, extent, from, to) ==
    IF from = to THEN extent
    ELSE LET pts == {projectPoint(proj4, from, to, <<extent[cx], extent[cy]>>) :
                        cx \in {1, 3}, cy \in {2, 4}}
             xs == {p[1] : p \in pts}
             ys == {p[2] : p \in pts}
             Lo(S) == CHOOSE a \in S : \A b \in S : a <= b
             Hi(S) == CHOOSE a \in S : \A b \in S : a >= b
         IN <<Lo(xs), Lo(ys), Hi(xs), Hi(ys)>>

\* MapViewportService.setExtent4326: the extent the snapshot keeps
setExtent4326(extent) ==
    <<Min(extent[1], extent[3]), Min(extent[2], extent[4]),
      Max(extent[1], extent[3]), Max(extent[2], extent[4])>>

\* Number(v).toFixed(digits) of an integer, as lexemes
formatNum(v, crs) ==
    LET isDegrees == crs \in {"EPSG:4326", "EPSG:4258", "CRS:84"}
        frac == IF isDegrees THEN "000000" ELSE "000"
    IN IF v < 0 THEN <<"-", ToString(-v), ".", frac>>
       ELSE <<ToString(v), ".", frac>>

formatExtentValue(e, crs) ==
    formatNum(e[1], crs) \o <<SP>> \o formatNum(e[2], crs) \o <<SP>>
        \o formatNum(e[3], crs) \o <<SP>> \o formatNum(e[4], crs)

guessInnerIndent(lines, start, end) ==
    LET S == {i \in (start + 1)..(end - 1) :
                /\ ~isComment(lines[i]) /\ Trim(lines[i]) # <<>>
                /\ ~StartsWithKeyword(lines[i], "END")
                /\ ~isBlockStart(lines[i])
                /\ DepthAt(lines, start, i) = 1}
    IN IF S = {} THEN <<SP, SP>>
       ELSE LET i == CHOOSE x \in S : \A y \in S : x <= y
            IN IF LeadingWs(lines[i]) = <<>> THEN <<SP, SP>> ELSE LeadingWs(lines[i])

findInsertAfterLine(lines, start, end, strategy) ==
    LET P == {i \in (start + 1)..(end - 1) :
                /\ ~isComment(lines[i])
                /\ ~StartsWithKeyword(lines[i], "END")
                /\ DepthAt(lines, start, i) = 1
                /\ StartsWithKeyword(lines[i], "PROJECTION")}
        after == FirstDepth1(lines, start, end,
                             IF strategy = "map" THEN "SIZE" ELSE "NAME")
    IN IF P # {} THEN findBlockEnd(lines, CHOOSE i \in P : \A j \in P : i <= j)
       ELSE IF after # 0 THEN after
       ELSE start

\* returns the lines after the replacement or the insertion
replaceOrInsertExtent(lines, start, end, newExtent, crs, cfg) ==
    LET indent == guessInnerIndent(lines, start, end)
        extentLine == indent \o <<"EXTENT", SP>> \o formatExtentValue(newExtent, crs)
        found == FirstDepth1(lines, start, end, "EXTENT")
        insertAfter == findInsertAfterLine(lines, start, end, cfg.insertStrategy)
        \* lines.splice(safeAfter + 1, 0, extentLine)
        Splice(safeAfter) ==
            SubSeq(lines, 1, safeAfter) \o <<extentLine>>
                \o SubSeq(lines, safeAfter + 1, Len(lines))
        Replace(i) == [lines EXCEPT ![i] = extentLine]
    IN IF found # 0 THEN Replace(found)
       ELSE IF ~cfg.addMissing THEN lines
       ELSE Splice(Min(Max(insertAfter, start), end - 1))

\* the parts of a METADATA entry that the rewrite keeps; ok is FALSE for null
parseMetadataEntryLine(line) ==
    LET indent == LeadingWs(line)
        restTrim == DropWs(line)
        IndexOf(s, c, from) ==
            LET S == {k \in from..Len(s) : s[k] = c}
            IN IF S = {} THEN 0 ELSE CHOOSE k \in S : \A m \in S : k <= m
        \* (\s*#.*)$ : from the blanks before the first '#' to the end
        Comment(s) ==
            LET h == IndexOf(s, HASH, 1)
                B == {b \in 1..h : \A k \in b..(h - 1) : IsWs(s[k])}
            IN IF h = 0 THEN <<>>
               ELSE SubSeq(s, CHOOSE b \in B : \A c \in B : b <= c, Len(s))
        keyQuoted == restTrim # <<>> /\ Head(restTrim) \in {DQ, SQ}
        keyClose == IF keyQuoted THEN IndexOf(restTrim, Head(restTrim), 2) ELSE 0
        key == IF keyQuoted THEN SubSeq(restTrim, 2, keyClose - 1)
               ELSE <<Head(restTrim)>>
        rest == IF keyQuoted THEN DropWs(SubSeq(restTrim, keyClose + 1, Len(restTrim)))
                ELSE DropWs(Tail(restTrim))
        valueQuoted == rest # <<>> /\ Head(rest) \in {DQ, SQ}
        valueClose == IF valueQuoted THEN IndexOf(rest, Head(rest), 2) ELSE 0
    IN IF \/ restTrim = <<>> \/ Head(restTrim) = HASH
          \/ keyQuoted /\ keyClose = 0
          \/ ~keyQuoted /\ ~IsWordRun(Head(restTrim))
          \/ rest = <<>>
          \/ valueQuoted /\ valueClose = 0
       THEN [ok |-> FALSE]
       ELSE [ok |-> TRUE,
             indent |-> indent,
             key |-> key,
             keyQuotedBy |-> IF keyQuoted THEN Head(restTrim) ELSE Null,
             valueQuotedBy |-> IF valueQuoted THEN Head(rest) ELSE Null,
             commentRaw |-> IF valueQuoted
                            THEN Comment(SubSeq(rest, valueClose + 1, Len(rest)))
                            ELSE Comment(rest)]

\* a plausible slip: the trailing comment is not put back
renderMetadataEntryLineBare(parsed, value) ==
    LET keyToken == IF parsed.keyQuotedBy # Null
                    THEN <<parsed.keyQuotedBy>> \o parsed.key \o <<parsed.keyQuotedBy>>
                    ELSE parsed.key
        valToken == IF parsed.valueQuotedBy # Null
                    THEN <<parsed.valueQuotedBy>> \o value \o <<parsed.valueQuotedBy>>
                    ELSE value
    IN parsed.indent \o keyToken \o <<SP>> \o valToken

renderMetadataEntryLine(parsed, value) ==
    LET keyToken == IF parsed.keyQuotedBy # Null
                    THEN <<parsed.keyQuotedBy>> \o parsed.key \o <<parsed.keyQuotedBy>>
                    ELSE parsed.key
        valToken == IF parsed.valueQuotedBy # Null
                    THEN <<parsed.valueQuotedBy>> \o value \o <<parsed.valueQuotedBy>>
                    ELSE value
    IN parsed.indent \o keyToken \o <<SP>> \o valToken \o parsed.commentRaw

RECURSIVE RewriteEntries(_, _, _, _)
\* the inner loop of replaceMetadataExtentKeysInBlock, from entry line j
RewriteEntries(lines, j, metaEnd, nextValue) ==
    IF j >= metaEnd THEN lines
    ELSE LET src == lines[j]
             parsed == parseMetadataEntryLine(src)
             isKey == /\ ~isComment(src) /\ Trim(src) # <<>>
                      /\ parsed.ok
                      /\ Len(parsed.key) = 1
                      /\ Upper(parsed.key[1]) \in {"WMS_EXTENT", "WFS_EXTENT"}
         IN RewriteEntries(
                IF isKey THEN [lines EXCEPT ![j] = renderMetadataEntryLine(parsed, nextValue)]
                         ELSE lines,
                j + 1, metaEnd, nextValue)

RECURSIVE RewriteMetadata(_, _, _, _)
\* the outer loop of replaceMetadataExtentKeysInBlock, from line i
RewriteMetadata(lines, i, end, nextValue) ==
    IF i >= end THEN lines
    ELSE IF isComment(lines[i]) \/ ~StartsWithKeyword(lines[i], "METADATA")
            \/ findBlockEnd(lines, i) <= i
    THEN RewriteMetadata(lines, i + 1, end, nextValue)
    ELSE RewriteMetadata(
            RewriteEntries(lines, i + 1, findBlockEnd(lines, i), nextValue),
            findBlockEnd(lines, i) + 1, end, nextValue)

replaceMetadataExtentKeysInBlock(lines, start, end, newExtent, crs) ==
    RewriteMetadata(lines, start + 1, end, formatExtentValue(newExtent, crs))

MaxLayers == 2

\* the body of the MAP block before its layers
MapBodies ==
    { <<>>,
      << <<SP, SP, "SIZE", SP, "400", SP, "300">>,
         <<SP, SP, "EXTENT", SP, "0", SP, "0", SP, "1", SP, "1">> >>,
      << <<SP, SP, "PROJECTION">>,
         <<SP, SP, SP, SP, DQ, "init", "=", "epsg", ":", "2100", DQ>>,
         <<SP, SP, "END">> >>,
      << <<SP, SP, "SIZE", SP, "400", SP, "300">> >>,
      << <<SP, SP, "WEB">>,
         <<SP, SP, SP, SP, "METADATA">>,
         <<SP, SP, SP, SP, SP, SP, DQ, "wms_extent", DQ, SP,
           DQ, "0", SP, "0", SP, "1", SP, "1", DQ, SP, HASH, SP, "x">>,
         <<SP, SP, SP, SP, "END">>,
         <<SP, SP, "END">> >>,
      << <<SP, SP, "REFERENCE">>,
         <<SP, SP, SP, SP, "EXTENT", SP, "5", SP, "5", SP, "6", SP, "6">>,
         <<SP, SP, "END">> >> }

LayerBlocks ==
    { << <<SP, SP, "LAYER">>, <<SP, SP, "END">> >>,
      << <<SP, SP, "LAYER">>,
         <<SP, SP, SP, SP, "NAME", SP, DQ, "roads", DQ>>,
         <<SP, SP, SP, SP, "CLASS">>,
         <<SP, SP, SP, SP, SP, SP, "EXTENT", SP, "5", SP, "5", SP, "6", SP, "6">>,
         <<SP, SP, SP, SP, "END">>,
         <<SP, SP, SP, SP, "EXTENT", SP, "0", SP, "0", SP, "1", SP, "1">>,
         <<SP, SP, SP, SP, "EXTENT", SP, "0", SP, "0", SP, "1", SP, "1">>,
         <<SP, SP, "END">> >>,
      << <<SP, SP, "LAYER">>,
         <<SP, SP, SP, SP, "PROJECTION">>,
         <<SP, SP, SP, SP, SP, SP, DQ, "init", "=", "epsg", ":", "3857", DQ>>,
         <<SP, SP, SP, SP, "END">>,
         <<SP, SP, SP, SP, "METADATA">>,
         <<SP, SP, SP, SP, SP, SP, "wfs_extent", SP, SP,
           SQ, "0", SP, "0", SP, "1", SP, "1", SQ>>,
         <<SP, SP, SP, SP, "END">>,
         <<SP, SP, "END">> >>,
      << <<SP, SP, "LAYER">>,
         <<SP, SP, SP, SP, "NAME", SP, DQ, "roads", DQ>>,
         <<SP, SP, SP, SP, "CONNECTION", SP, DQ, "srid", "=", "2100", DQ>>,
         <<SP, SP, "END">> >> }

RECURSIVE Flatten(_)
Flatten(blocks) == IF blocks = <<>> THEN <<>> ELSE Head(blocks) \o Flatten(Tail(blocks))

\* a LAYER whose LABEL holds a LEADER block, a keyword BLOCK_STARTERS lacks,
\* and whose EXTENT stands after its CLASS
LeaderText ==
    JoinWith(<< <<"MAP">>,
                <<SP, SP, "LAYER">>,
                <<SP, SP, SP, SP, "CLASS">>,
                <<SP, SP, SP, SP, SP, SP, "LABEL">>,
                <<SP, SP, SP, SP, SP, SP, SP, SP, "LEADER">>,
                <<SP, SP, SP, SP, SP, SP, SP, SP, SP, SP, "GRIDSTEP", SP, "5">>,
                <<SP, SP, SP, SP, SP, SP, SP, SP, "END">>,
                <<SP, SP, SP, SP, SP, SP, "END">>,
                <<SP, SP, SP, SP, "END">>,
                <<SP, SP, SP, SP, "EXTENT", SP, "0", SP, "0", SP, "1", SP, "1">>,
                <<SP, SP, "END">>,
                <<"END">> >>, <<LF>>)

\* a MAP line, a body, at most MaxLayers layers, and the closing END or none;
\* the empty text, a text without a MAP line and a MAP written without
\* indentation
ExtTexts ==
    UNION { { JoinWith(<< <<"MAP">> >> \o body \o Flatten(ls) \o tail, nl) :
                body \in MapBodies,
                tail \in {<< <<"END">> >>, <<>>},
                nl \in IF Len(ls) <= 1 THEN {<<LF>>, <<CR, LF>>} ELSE {<<LF>>} } :
            ls \in UNION {[1..k -> LayerBlocks] : k \in 0..MaxLayers} }
    \cup {<<>>, <<HASH, SP, "MAP">>,
          <<"MAP", LF, "SIZE", SP, "400", SP, "300", LF, "END">>,
          LeaderText}

\* the corners the map pane or another caller hands over
RawExtents == {<<-2, -1, 3, 4>>, <<3, 4, -2, -1>>}

SyncDefaults == [addMissing |-> TRUE, updateMap |-> TRUE, updateLayers |-> TRUE]

\* the defaults, and each option switched off in turn
SyncOptions ==
    {SyncDefaults} \cup
    {[SyncDefaults EXCEPT ![f] = FALSE] : f \in {"addMissing", "updateMap", "updateLayers"}}

\* no snapshot yet, no extent handed over
NoExtent == <<>>

\* the locals of a call of findBlockEnd: startLine, the loop index, depth and
\* the index returned (0 while the loop runs)
NoScan == [startLine |-> 0, i |-> 0, depth |-> 0, ret |-> 0]

ExtIdle ==
    [pc |-> "idle", text |-> <<>>, proj4 |-> "missing", snapshot |-> NoExtent,
     viewportExtent4326 |-> NoExtent, opts |-> SyncDefaults,
     nl |-> <<LF>>, lines |-> <<>>, mapStart |-> 0, mapEnd |-> 0, mapCrs |-> Null,
     i |-> 0, ret |-> <<>>, error |-> Null, prev |-> <<>>, calls |-> 0,
     scan |-> NoScan]

\* ExtentSyncService.sync up to the MAP coordinate reference: the early
\* returns, the MAP span with its fallback, the throw; e is ext with the
\* arguments of the call
SyncEnter(e) ==
    \E lines \in {SplitCRLF(e.text)} :
    \E mapStart \in {findFirstBlockStart(lines, "MAP")} :
    \E depthEnd \in {findBlockEnd(lines, mapStart)} :
    \E mapEnd \in {IF depthEnd > mapStart THEN depthEnd
                    ELSE findLastEndAfter(lines, mapStart)} :
       IF Trim(e.text) = <<>> \/ mapStart = 0 THEN
           ext' = [e EXCEPT !.pc = "done", !.ret = e.text, !.calls = @ + 1]
       ELSE IF mapEnd <= mapStart THEN
           ext' = [e EXCEPT !.pc = "done", !.ret = <<>>, !.calls = @ + 1,
                            !.error = "MAP block END not found"]
       ELSE
           \E mapCrsFromMap \in {extractCrsFromBlock(lines, mapStart, mapEnd)} :
           \E mapCrsFromLayers \in {extractFirstLayerCrs(lines, mapStart, mapEnd)} :
              ext' = [e EXCEPT
                        !.pc = "map", !.lines = lines,
                        !.nl = IF \E k \in 1..(Len(e.text) - 1) :
                                    e.text[k] = CR /\ e.text[k + 1] = LF
                               THEN <<CR, LF>> ELSE <<LF>>,
                        !.mapStart = mapStart, !.mapEnd = mapEnd,
                        !.mapCrs = IF mapCrsFromMap # Null THEN mapCrsFromMap
                                   ELSE IF mapCrsFromLayers # Null THEN mapCrsFromLayers
                                   ELSE "CRS:84"]

\* MapViewportService.setExtent4326, called by the map pane
SetExtent4326(extent) ==
    /\ ext.pc = "idle" /\ ext.calls = 0
    /\ ext' = [ext EXCEPT !.snapshot = setExtent4326(extent)]
    /\ UNCHANGED <<fmt, bal, syn, wfs, srv>>

\* ExtentSyncService.syncToCurrentViewport with no options
SyncToCurrentViewport ==
    /\ ext.pc = "idle" /\ ext.calls = 0
    /\ IF ext.snapshot = NoExtent
       THEN ext' = [ext EXCEPT !.pc = "done", !.ret = ext.text, !.calls = @ + 1]
       ELSE SyncEnter([ext EXCEPT !.viewportExtent4326 = ext.snapshot,
                                  !.opts = SyncDefaults])
    /\ UNCHANGED <<fmt, bal, syn, wfs, srv>>

\* ExtentSyncService.sync called with an extent and options
Sync(viewportExtent4326, opts) ==
    /\ ext.pc = "idle" /\ ext.calls = 0
    /\ SyncEnter([ext EXCEPT !.viewportExtent4326 = viewportExtent4326,
                             !.opts = opts])
    /\ UNCHANGED <<fmt, bal, syn, wfs, srv>>

\* 1) MAP EXTENT and the MAP's wms_extent / wfs_extent
SyncMap ==
    /\ ext.pc = "map"
    /\ \E mapExtent \in {projectExtent(ext.proj4, ext.viewportExtent4326,
                                       "CRS:84", ext.mapCrs)} :
       \E replaced \in {replaceOrInsertExtent(ext.lines, ext.mapStart, ext.mapEnd,
                            mapExtent, ext.mapCrs,
                            [addMissing |-> ext.opts.addMissing,
                             insertStrategy |-> "map"])} :
          ext' = [ext EXCEPT
                    !.pc = "layers", !.i = ext.mapStart + 1,
                    !.lines = IF ext.opts.updateMap
                              THEN replaceMetadataExtentKeysInBlock(replaced,
                                       ext.mapStart, ext.mapEnd, mapExtent, ext.mapCrs)
                              ELSE @]
    /\ UNCHANGED <<fmt, bal, syn, wfs, srv>>

\* the line at ext.i opens a LAYER block whose END is found
SyncAtLayer ==
    /\ ~isComment(ext.lines[ext.i])
    /\ StartsWithKeyword(ext.lines[ext.i], "LAYER")
    /\ findBlockEnd(ext.lines, ext.i) > ext.i

\* 2) the layer loop at a line that it passes over
SyncSkipLine ==
    /\ ext.pc = "layers" /\ ext.opts.updateLayers
    /\ ext.i < ext.mapEnd
    /\ ~SyncAtLayer
    /\ ext' = [ext EXCEPT !.i = @ + 1]
    /\ UNCHANGED <<fmt, bal, syn, wfs, srv>>

\* 2) LAYER EXTENT and the layer's wms_extent / wfs_extent; mapEnd is the
\* index computed before any insertion
SyncLayer ==
    /\ ext.pc = "layers" /\ ext.opts.updateLayers
    /\ ext.i < ext.mapEnd
    /\ SyncAtLayer
    /\ \E layerStart \in {ext.i} :
       \E layerEnd \in {findBlockEnd(ext.lines, layerStart)} :
       \E fromBlock \in {extractCrsFromBlock(ext.lines, layerStart, layerEnd)} :
       \E layerCrs \in {IF fromBlock # Null THEN fromBlock ELSE ext.mapCrs} :
       \E layerExtent \in {projectExtent(ext.proj4, ext.viewportExtent4326,
                                         "CRS:84", layerCrs)} :
       \E replaced \in {replaceOrInsertExtent(ext.lines, layerStart, layerEnd,
                            layerExtent, layerCrs,
                            [addMissing |-> ext.opts.addMissing,
                             insertStrategy |-> "layer"])} :
          ext' = [ext EXCEPT
                    !.lines = replaceMetadataExtentKeysInBlock(replaced,
                                  layerStart, layerEnd, layerExtent, layerCrs),
                    !.i = layerEnd + 1]
    /\ UNCHANGED <<fmt, bal, syn, wfs, srv>>

\* lines.join(nl)
SyncReturn ==
    /\ ext.pc = "layers"
    /\ ~ext.opts.updateLayers \/ ext.i >= ext.mapEnd
    /\ ext' = [ext EXCEPT !.pc = "done", !.ret = JoinWith(ext.lines, ext.nl),
                          !.calls = @ + 1]
    /\ UNCHANGED <<fmt, bal, syn, wfs, srv>>

\* sync on its own result, same extent and options
SyncAgain ==
    /\ ext.pc = "done" /\ ext.calls = 1
    /\ ext.error = Null /\ ext.viewportExtent4326 # NoExtent
    /\ SyncEnter([ext EXCEPT !.prev = ext.ret, !.text = ext.ret])
    /\ UNCHANGED <<fmt, bal, syn, wfs, srv>>

ExtNext ==
    \/ \E extent \in RawExtents : SetExtent4326(extent)
    \/ SyncToCurrentViewport
    \/ \E extent \in RawExtents, opts \in SyncOptions : Sync(extent, opts)
    \/ SyncMap
    \/ SyncSkipLine
    \/ SyncLayer
    \/ SyncReturn
    \/ SyncAgain


\* findBlockEnd(lines, startLine) is entered on the lines of the text
FindBlockEndEnter(startLine) ==
    /\ ext.pc = "idle" /\ ext.calls = 0
    /\ startLine \in 1..Len(SplitCRLF(ext.text))
    /\ ext' = [ext EXCEPT
                 !.pc = "scan", !.lines = SplitCRLF(ext.text),
                 !.scan = [startLine |-> startLine, i |-> startLine + 1,
                           depth |-> 1, ret |-> 0]]
    /\ UNCHANGED <<fmt, bal, syn, wfs, srv>>

ScanAtLine == ext.pc = "scan" /\ ext.scan.i <= Len(ext.lines)
ScanLine == ext.lines[ext.scan.i]

\* one turn of the loop of findBlockEnd
FindBlockEndStep ==
    /\ ScanAtLine
    /\ ext' =
          IF isComment(ScanLine) THEN [ext EXCEPT !.scan.i = @ + 1]
          ELSE IF StartsWithKeyword(ScanLine, "END") THEN
              (IF ext.scan.depth - 1 = 0
               THEN [ext EXCEPT !.pc = "scanned", !.scan.depth = 0,
                                !.scan.ret = ext.scan.i]
               ELSE [ext EXCEPT !.scan.depth = @ - 1, !.scan.i = @ + 1])
          ELSE IF isBlockStart(ScanLine)
               THEN [ext EXCEPT !.scan.depth = @ + 1, !.scan.i = @ + 1]
               ELSE [ext EXCEPT !.scan.i = @ + 1]
    /\ UNCHANGED <<fmt, bal, syn, wfs, srv>>

\* the loop of findBlockEnd has run out of lines: return startLine
FindBlockEndReturn ==
    /\ ext.pc = "scan" /\ ext.scan.i > Len(ext.lines)
    /\ ext' = [ext EXCEPT !.pc = "scanned", !.scan.ret = ext.scan.startLine]
    /\ UNCHANGED <<fmt, bal, syn, wfs, srv>>

\* the lines the formatter and findBlockEnd are both run on
DepthLineSet ==
    { <<"STYLE">>,
      <<SP, "layer", SP, HASH, SP, "x">>,
      <<"STYLE", SP, "HILITE">>,
      <<SP, SP, "PATTERN", SP, "10", SP, "10">>,
      <<"END">>,
      <<HASH, SP, "STYLE">> }

MaxDepthLines == 3

DepthTexts == TextsOf(DepthLineSet, MaxDepthLines, <<LF>>)

DepthNext ==
    \/ FmtNext
    \/ \E startLine \in 1..MaxDepthLines : FindBlockEndEnter(startLine)
    \/ FindBlockEndStep
    \/ FindBlockEndReturn

----------------------------------------------------------------------------
(* WFS support classifier: computeWfsSupportForLayer, applied by           *)
(* getWfsSupportMap when a LAYER block closes.  A metadata object is the   *)
(* sequence of its <<key, value>> entries in insertion order, keys         *)
(* distinct; a value is a sequence of lexemes.                             *)

\* String.prototype.toLowerCase on the runs of the alphabet that are not
\* already lower case
Lower(w) ==
    CASE w = "WFS_ENABLE_REQUEST" -> "wfs_enable_request"
      [] w = "GetFeature" -> "getfeature"
      [] w = "GetCapabilities" -> "getcapabilities"
      [] w = "ALL" -> "all"
      [] w = "NONE" -> "none"
      [] w = "Roads" -> "roads"
      [] w = "EPSG" -> "epsg"
      [] OTHER -> w

\* the object with every key lower-cased; of two entries that collide the
\* later one wins
normalizeMeta(meta) ==
    LET Last(k) == CHOOSE i \in 1..Len(meta) :
                      /\ Lower(meta[i][1]) = k
                      /\ \A j \in (i + 1)..Len(meta) : Lower(meta[j][1]) # k
    IN [k \in {Lower(meta[i][1]) : i \in 1..Len(meta)} |-> meta[Last(k)][2]]

\* s.includes('getfeature') || s.includes('*') || s.includes('all'), on the
\* runs of the alphabet
valueIncludesGetFeature(v) ==
    \E k \in 1..Len(v) : Lower(v[k]) \in {"getfeature", "*", "all"}

valueLooksDisabled(v) ==
    LET s == Trim([k \in 1..Len(v) |-> Lower(v[k])])
    IN s = <<>> \/ s \in {<<"none">>, <<"0">>, <<"false">>, <<"off">>}

\* a plausible slip: keys.every in place of keys.some
hasAnyEvery(metaLower, keys) ==
    \A k \in keys : k \in DOMAIN metaLower /\ Trim(metaLower[k]) # <<>>

hasAny(metaLower, keys) ==
    \E k \in keys : k \in DOMAIN metaLower /\ Trim(metaLower[k]) # <<>>

\* a plausible slip: the WEB METADATA is asked before the layer's own
EnableRequestWebFirst(layerMetaLower, webMetaLower) ==
    LET Has(m, k) == k \in DOMAIN m
    IN IF Has(webMetaLower, "wfs_enable_request") THEN
           <<"wfs_enable_request", webMetaLower["wfs_enable_request"], "web">>
       ELSE IF Has(webMetaLower, "ows_enable_request") THEN
           <<"ows_enable_request", webMetaLower["ows_enable_request"], "web">>
       ELSE IF Has(layerMetaLower, "wfs_enable_request") THEN
           <<"wfs_enable_request", layerMetaLower["wfs_enable_request"], "layer">>
       ELSE IF Has(layerMetaLower, "ows_enable_request") THEN
           <<"ows_enable_request", layerMetaLower["ows_enable_request"], "layer">>
       ELSE <<>>

\* the if / else-if chain that sets enableKey, enableVal and enableScope;
\* <<>> when enableKey stays null
EnableRequest(layerMetaLower, webMetaLower) ==
    LET Has(m, k) == k \in DOMAIN m
    IN IF Has(layerMetaLower, "wfs_enable_request") THEN
           <<"wfs_enable_request", layerMetaLower["wfs_enable_request"], "layer">>
       ELSE IF Has(layerMetaLower, "ows_enable_request") THEN
           <<"ows_enable_request", layerMetaLower["ows_enable_request"], "layer">>
       ELSE IF Has(webMetaLower, "wfs_enable_request") THEN
           <<"wfs_enable_request", webMetaLower["wfs_enable_request"], "web">>
       ELSE IF Has(webMetaLower, "ows_enable_request") THEN
           <<"ows_enable_request", webMetaLower["ows_enable_request"], "web">>
       ELSE <<>>

computeWfsSupportForLayer(layer, layerMetaLower, webMetaLower) ==
    LET typeUpper == IF layer.type = Null THEN "" ELSE Upper(layer.type)
        enable == EnableRequest(layerMetaLower, webMetaLower)
        hasTitle == hasAny(layerMetaLower, {"wfs_title", "ows_title"})
        hasSrs == hasAny(layerMetaLower, {"wfs_srs", "ows_srs"})
        miss == (IF hasTitle THEN <<>> ELSE << <<"missing wfs_title/ows_title">> >>)
                \o (IF hasSrs THEN <<>> ELSE << <<"missing wfs_srs/ows_srs">> >>)
    IN IF typeUpper = "RASTER" THEN
           [supported |-> FALSE,
            reasons |-> << <<"TYPE=RASTER (WFS is vector-only)">> >>]
       ELSE IF enable = <<>> THEN
           [supported |-> FALSE,
            reasons |-> << <<"missing enable metadata (wfs_enable_request / ows_enable_request)">> >>]
       ELSE IF valueLooksDisabled(enable[2]) \/ ~valueIncludesGetFeature(enable[2]) THEN
           [supported |-> FALSE,
            reasons |-> <<enable, <<"enable metadata does not allow GetFeature">> >>]
       ELSE IF ~hasTitle \/ ~hasSrs THEN
           [supported |-> FALSE, reasons |-> <<enable>> \o miss]
       ELSE [supported |-> TRUE,
             reasons |-> <<enable, <<"has basic WFS metadata (title + srs)">> >>]

MaxMeta == 3

\* the entries a layer's METADATA block may hold
LayerMetaEntries ==
    { <<"wfs_enable_request", <<"*">>>>,
      <<"WFS_ENABLE_REQUEST", <<"none">>>>,
      <<"ows_enable_request", <<"GetCapabilities", SP, "GetFeature">>>>,
      <<"wfs_title", <<"Roads">>>>,
      <<"wfs_title", <<SP>>>>,
      <<"ows_title", <<"Roads">>>>,
      <<"wfs_srs", <<"EPSG", ":", "4326">>>>,
      <<"ows_srs", <<>>>> }

LayerMetas ==
    UNION { {m \in [1..n -> LayerMetaEntries] :
                \A i, j \in 1..n : i # j => m[i][1] # m[j][1]} : n \in 0..MaxMeta }

\* the WEB METADATA of the map
WebMetas ==
    { <<>>, << <<"wfs_enable_request", <<"*">>>> >>, << <<"ows_enable_request", <<"off">>>> >>,
      << <<"ows_enable_request", <<"*">>>>, <<"wfs_enable_request", <<"off">>>> >>,
      << <<"wfs_enable_request", <<"*">>>>, <<"wfs_title", <<"Roads">>>>,
         <<"wfs_srs", <<"EPSG", ":", "4326">>>> >> }

\* what NAME and TYPE of the layer were parsed to
LayerNames == {Null, "roads"}
LayerTypes == {Null, "POLYGON", "RASTER", "raster"}

\* { name: null, type: null, metadata: {} }
NewLayer == [name |-> Null, type |-> Null, metadata |-> <<>>]

\* hasLayer: currentLayer is not null
WfsIdle ==
    [pc |-> "idle", text |-> <<>>, lines |-> <<>>, idx |-> 0, stack |-> <<>>,
     hasLayer |-> FALSE,
     currentLayer |-> NewLayer,
     webMetadata |-> <<>>,
     supportMap |-> <<>>]

\* getWfsSupportMap at the END that closes the current LAYER: a named layer
\* is classified, an unnamed one is dropped
CloseLayer ==
    /\ wfs.pc = "layer"
    /\ wfs' = [wfs EXCEPT
                 !.pc = "closed", !.hasLayer = FALSE,
                 !.supportMap =
                     IF wfs.currentLayer.name # Null
                     THEN << <<wfs.currentLayer.name,
                               computeWfsSupportForLayer(wfs.currentLayer,
                                   normalizeMeta(wfs.currentLayer.metadata),
                                   normalizeMeta(wfs.webMetadata))>> >>
                     ELSE @]
    /\ UNCHANGED <<fmt, bal, syn, ext, srv>>

WfsNext == CloseLayer

\* the walk of getWfsSupportMap over the lines of a mapfile

BLOCK_START ==
    {"MAP", "LAYER", "WEB", "METADATA", "PROJECTION", "CLASS", "STYLE", "LABEL",
     "FEATURE", "JOIN", "CLUSTER", "OUTPUTFORMAT", "LEGEND", "REFERENCE", "QUERYMAP",
     "SCALEBAR", "SYMBOL"}

RECURSIVE StripFrom(_, _, _)
\* the loop of stripComments from lexeme i on
StripFrom(line, i, inQuote) ==
    IF i > Len(line) THEN <<>>
    ELSE LET q == IF line[i] = DQ THEN ~inQuote ELSE inQuote
         IN IF ~q /\ line[i] = HASH THEN <<>>
            ELSE <<line[i]>> \o StripFrom(line, i + 1, q)

stripComments(line) == StripFrom(line, 1, FALSE)

\* /^\s*([A-Za-z_][A-Za-z0-9_]*)\b/, upper-cased; Null if there is no match
firstTokenUpper(line) ==
    IF DropWs(line) # <<>> /\ IsWord(Head(DropWs(line)))
    THEN Upper(Head(DropWs(line))) ELSE Null

\* ^\s*KEY\s+(.+?)\s*$ with the surrounding double quotes taken off; ok is
\* FALSE for null
parseDirectiveValue(line, keyUpper) ==
    LET t == DropWs(line)
        v == Trim(Tail(t))
    IN IF Len(t) >= 3 /\ Upper(t[1]) = keyUpper /\ IsWs(t[2]) /\ v # <<>>
       THEN [ok |-> TRUE,
             v |-> IF Len(v) >= 2 /\ Head(v) = DQ /\ v[Len(v)] = DQ
                   THEN SubSeq(v, 2, Len(v) - 1) ELSE v]
       ELSE [ok |-> FALSE, v |-> <<>>]

RECURSIVE QuotedParts(_, _)
\* line.matchAll(/"([^"]*)"/g), from lexeme i on
QuotedParts(line, i) ==
    LET O == {k \in i..Len(line) : line[k] = DQ}
        o == CHOOSE k \in O : \A m \in O : k <= m
        C == {k \in (o + 1)..Len(line) : line[k] = DQ}
        c == CHOOSE k \in C : \A m \in C : k <= m
    IN IF O = {} THEN <<>>
       ELSE IF C = {} THEN <<>>
       ELSE <<SubSeq(line, o + 1, c - 1)>> \o QuotedParts(line, c + 1)

RECURSIVE StripQuotes(_)
\* replace(/^"+|"+$/g, '')
StripQuotes(v) ==
    IF v # <<>> /\ Head(v) = DQ THEN StripQuotes(Tail(v))
    ELSE IF v # <<>> /\ v[Len(v)] = DQ THEN StripQuotes(SubSeq(v, 1, Len(v) - 1))
    ELSE v

\* the text of a value of one run (the names, types and keys of the inputs)
TextOf(v) == IF Len(v) = 1 THEN v[1] ELSE ""

\* the key and the value of a METADATA line; ok is FALSE for null
parseMetadataKV(line) ==
    LET quoted == QuotedParts(line, 1)
        t == Trim(line)
        W == {k \in 1..Len(t) : IsWs(t[k])}
        w == CHOOSE k \in W : \A m \in W : k <= m
        key == StripQuotes(SubSeq(t, 1, w - 1))
        value == StripQuotes(Trim(SubSeq(t, w, Len(t))))
    IN IF Len(quoted) >= 2
       THEN [ok |-> TRUE, key |-> TextOf(quoted[1]), value |-> quoted[2]]
       ELSE IF W # {} /\ key # <<>> /\ value # <<>>
       THEN [ok |-> TRUE, key |-> TextOf(key), value |-> value]
       ELSE [ok |-> FALSE, key |-> "", value |-> <<>>]

\* obj[key] = value on an object kept as the sequence of its entries
SetEntry(obj, key, value) ==
    IF \E i \in 1..Len(obj) : obj[i][1] = key
    THEN [i \in 1..Len(obj) |-> IF obj[i][1] = key THEN <<key, value>> ELSE obj[i]]
    ELSE Append(obj, <<key, value>>)

\* getWfsSupportMap is entered: the text is split into lines
GetWfsSupportMapStart ==
    /\ wfs.pc = "idle"
    /\ wfs' = [wfs EXCEPT !.pc = "walk", !.lines = SplitCRLF(wfs.text), !.idx = 0]
    /\ UNCHANGED <<fmt, bal, syn, ext, srv>>

WalkAtLine == wfs.pc = "walk" /\ wfs.idx < Len(wfs.lines)
WalkLine == Trim(stripComments(wfs.lines[wfs.idx + 1]))
WalkTok == firstTokenUpper(WalkLine)
WalkTop == IF wfs.stack = <<>> THEN Null ELSE wfs.stack[Len(wfs.stack)]
WalkInMetadata == WalkTop = "METADATA"
WalkInWeb == \E k \in 1..Len(wfs.stack) : wfs.stack[k] = "WEB"
WalkInLayer == \E k \in 1..Len(wfs.stack) : wfs.stack[k] = "LAYER"
WalkIsDirective ==
    /\ WalkAtLine /\ WalkLine # <<>>
    /\ WalkTok # "END" /\ WalkTok \notin BLOCK_START

\* a line that is empty once its comment is taken off
WalkBlank ==
    /\ WalkAtLine /\ WalkLine = <<>>
    /\ wfs' = [wfs EXCEPT !.idx = @ + 1]
    /\ UNCHANGED <<fmt, bal, syn, ext, srv>>

\* END: the stack is popped; if LAYER came off, the current layer is
\* classified under its name and dropped
WalkEnd ==
    /\ WalkAtLine /\ WalkLine # <<>> /\ WalkTok = "END"
    /\ wfs' = [wfs EXCEPT
                 !.idx = @ + 1,
                 !.stack = IF @ = <<>> THEN @ ELSE SubSeq(@, 1, Len(@) - 1),
                 !.supportMap =
                     IF WalkTop = "LAYER" /\ wfs.hasLayer /\ wfs.currentLayer.name # Null
                     THEN SetEntry(@, wfs.currentLayer.name,
                                   computeWfsSupportForLayer(wfs.currentLayer,
                                       normalizeMeta(wfs.currentLayer.metadata),
                                       normalizeMeta(wfs.webMetadata)))
                     ELSE @,
                 !.hasLayer = IF WalkTop = "LAYER" THEN FALSE ELSE @,
                 !.currentLayer = IF WalkTop = "LAYER" /\ wfs.hasLayer THEN NewLayer ELSE @]
    /\ UNCHANGED <<fmt, bal, syn, ext, srv>>

\* the first token is in BLOCK_START, whatever follows it on the line
WalkBlockStart ==
    /\ WalkAtLine /\ WalkLine # <<>> /\ WalkTok \in BLOCK_START
    /\ wfs' = [wfs EXCEPT
                 !.idx = @ + 1,
                 !.stack = Append(@, WalkTok),
                 !.hasLayer = IF WalkTok = "LAYER" THEN TRUE ELSE @,
                 !.currentLayer = IF WalkTok = "LAYER" THEN NewLayer ELSE @]
    /\ UNCHANGED <<fmt, bal, syn, ext, srv>>

\* an entry of the map's WEB METADATA
WalkWebMetadata ==
    /\ WalkIsDirective
    /\ WalkInMetadata /\ WalkInWeb /\ ~WalkInLayer
    /\ LET kv == parseMetadataKV(WalkLine)
       IN wfs' = [wfs EXCEPT
                    !.idx = @ + 1,
                    !.webMetadata = IF kv.ok /\ kv.key # ""
                                    THEN SetEntry(@, kv.key, kv.value) ELSE @]
    /\ UNCHANGED <<fmt, bal, syn, ext, srv>>

\* NAME and TYPE directly inside the current layer
WalkLayerDirective ==
    /\ WalkIsDirective
    /\ ~(WalkInMetadata /\ WalkInWeb /\ ~WalkInLayer)
    /\ wfs.hasLayer /\ WalkTop = "LAYER"
    /\ LET name == parseDirectiveValue(WalkLine, "NAME")
           type == parseDirectiveValue(WalkLine, "TYPE")
       IN wfs' = [wfs EXCEPT
                    !.idx = @ + 1,
                    !.currentLayer =
                        [@ EXCEPT !.name = IF name.ok THEN TextOf(name.v) ELSE @,
                                  !.type = IF type.ok THEN TextOf(type.v) ELSE @]]
    /\ UNCHANGED <<fmt, bal, syn, ext, srv>>

\* an entry of a METADATA block inside the current layer
WalkLayerMetadata ==
    /\ WalkIsDirective
    /\ ~(WalkInMetadata /\ WalkInWeb /\ ~WalkInLayer)
    /\ wfs.hasLayer /\ WalkTop # "LAYER"
    /\ WalkInMetadata /\ WalkInLayer
    /\ LET kv == parseMetadataKV(WalkLine)
       IN wfs' = [wfs EXCEPT
                    !.idx = @ + 1,
                    !.currentLayer.metadata = IF kv.ok /\ kv.key # ""
                                              THEN SetEntry(@, kv.key, kv.value) ELSE @]
    /\ UNCHANGED <<fmt, bal, syn, ext, srv>>

\* any other line is passed over
WalkOther ==
    /\ WalkIsDirective
    /\ ~(WalkInMetadata /\ WalkInWeb /\ ~WalkInLayer)
    /\ \/ ~wfs.hasLayer
       \/ WalkTop # "LAYER" /\ ~(WalkInMetadata /\ WalkInLayer)
    /\ wfs' = [wfs EXCEPT !.idx = @ + 1]
    /\ UNCHANGED <<fmt, bal, syn, ext, srv>>

\* return supportMap
WalkReturn ==
    /\ wfs.pc = "walk" /\ wfs.idx >= Len(wfs.lines)
    /\ wfs' = [wfs EXCEPT !.pc = "done"]
    /\ UNCHANGED <<fmt, bal, syn, ext, srv>>

WalkNext ==
    \/ GetWfsSupportMapStart
    \/ WalkBlank
    \/ WalkEnd
    \/ WalkBlockStart
    \/ WalkWebMetadata
    \/ WalkLayerDirective
    \/ WalkLayerMetadata
    \/ WalkOther
    \/ WalkReturn

\* well-formed mapfiles: what a LAYER block holds (a name or none, a type or
\* none, its METADATA entries, and a CLASS whose STYLE has SYMBOL "circle" or
\* no CLASS)
WalkLayerKinds ==
    { [named |-> TRUE, type |-> "POLYGON",
       meta |-> << <<"wfs_title", <<"Roads">>>>, <<"wfs_srs", <<"EPSG", ":", "4326">>>> >>,
       symbol |-> FALSE],
      [named |-> TRUE, type |-> "RASTER", meta |-> <<>>, symbol |-> FALSE],
      [named |-> TRUE, type |-> Null,
       meta |-> << <<"wfs_enable_request", <<"*">>>>, <<"wfs_title", <<"Roads">>>>,
                   <<"wfs_srs", <<"EPSG", ":", "4326">>>> >>,
       symbol |-> TRUE],
      [named |-> FALSE, type |-> "POLYGON", meta |-> <<>>, symbol |-> TRUE] }

\* the WEB METADATA entries of the map
WalkWebMetas == { <<>>, << <<"wfs_enable_request", <<"*">>>> >> }

MaxWalkLayers == 2

\* the k-th layer of a map is named after its place
LayerNameAt == <<"roads", "rivers", "lakes", "parks">>

\* the lines of a METADATA block with the entries meta, indented by ind
MetadataLines(meta, ind) ==
    IF meta = <<>> THEN <<>>
    ELSE << ind \o <<"METADATA">> >>
         \o [k \in 1..Len(meta) |->
               ind \o <<SP, SP, DQ, meta[k][1], DQ, SP, DQ>> \o meta[k][2] \o <<DQ>>]
         \o << ind \o <<"END">> >>

LayerLines(kind, name) ==
    << <<SP, SP, "LAYER">> >>
    \o (IF kind.named THEN << <<SP, SP, SP, SP, "NAME", SP, DQ, name, DQ>> >> ELSE <<>>)
    \o (IF kind.type # Null THEN << <<SP, SP, SP, SP, "TYPE", SP, kind.type>> >> ELSE <<>>)
    \o MetadataLines(kind.meta, <<SP, SP, SP, SP>>)
    \o (IF kind.symbol
        THEN << <<SP, SP, SP, SP, "CLASS">>,
                <<SP, SP, SP, SP, SP, SP, "NAME", SP, DQ, "c", DQ>>,
                <<SP, SP, SP, SP, SP, SP, "STYLE">>,
                <<SP, SP, SP, SP, SP, SP, SP, SP, "SYMBOL", SP, DQ, "circle", DQ>>,
                <<SP, SP, SP, SP, SP, SP, "END">>,
                <<SP, SP, SP, SP, "END">> >>
        ELSE <<>>)
    \o << <<SP, SP, "END">> >>

RECURSIVE LayersLines(_, _)
LayersLines(kinds, k) ==
    IF k > Len(kinds) THEN <<>>
    ELSE LayerLines(kinds[k], LayerNameAt[k]) \o LayersLines(kinds, k + 1)

\* MAP, a comment, the WEB block if it has entries, a blank line, the layers, END
WalkText(web, kinds) ==
    JoinWith(<< <<"MAP">>, <<SP, SP, HASH, SP, "x">> >>
             \o (IF web = <<>> THEN <<>>
                 ELSE << <<SP, SP, "WEB">> >>
                      \o MetadataLines(web, <<SP, SP, SP, SP>>)
                      \o << <<SP, SP, "END">>, <<>> >>)
             \o LayersLines(kinds, 1)
             \o << <<"END">> >>, <<LF>>)

WalkLayerSeqs == UNION {[1..n -> WalkLayerKinds] : n \in 0..MaxWalkLayers}

----------------------------------------------------------------------------
(* The mapfile routes of the server: the file lock, the bodies of /save    *)
(* and /validate that run under it, and /open, which runs outside it.      *)
(* A body is cut at its awaits: a step resumes the body, reads             *)
(* config.currentMapPath where the code reads it, and issues the next      *)
(* file operation.                                                         *)

MapPaths == {"a.map", "b.map"}
MaxBodies == 3
MaxOpens == 2

SrvIdle ==
    [currentMapPath |-> "a.map",
     files |-> [p \in MapPaths |-> Null],
     baks |-> [p \in MapPaths |-> Null],
     before |-> [p \in MapPaths |-> Null],
     runs |-> <<>>, fileLock |-> 0, started |-> <<>>, opens |-> 0]

\* the content a request carries
ContentOf(kind) == IF kind = "validate" THEN "V" ELSE "S"

BodySettled(pc) == pc \in {"resolved", "rejected"}

\* the state of run.catch(() => { }): fulfilled once run has settled, either way
catchState(pc) == IF BodySettled(pc) THEN "fulfilled" ELSE "pending"

\* the state of the promise the k-th value of __fileLock; 0 is Promise.resolve()
LockState(k) == IF k = 0 THEN "fulfilled" ELSE catchState(srv.runs[k].pc)

thenReadyNow(lockState) == TRUE

\* __fileLock.then(fn, fn): fn is called once the lock has settled, either way
thenReady(lockState) == lockState \in {"fulfilled", "rejected"}

\* withFileLock(fn) from /save or from /validate with content: the body is
\* chained to the lock and becomes the lock
Submit(kind) ==
    /\ Len(srv.runs) < MaxBodies
    /\ srv' = [srv EXCEPT
                 !.runs = Append(@, [kind |-> kind, content |-> ContentOf(kind),
                                     pc |-> "queued", prev |-> srv.fileLock,
                                     backupPath |-> Null, existed |-> FALSE,
                                     failed |-> FALSE, fsError |-> FALSE]),
                 !.fileLock = Len(srv.runs) + 1]
    /\ UNCHANGED <<fmt, bal, syn, ext, wfs>>

\* the lock the body was chained to has settled: the body is entered and
\* backupAndWriteCurrent issues ensureDir
StartBody(k) ==
    /\ srv.runs[k].pc = "queued"
    /\ thenReady(LockState(srv.runs[k].prev))
    /\ srv' = [srv EXCEPT !.runs[k].pc = "ensureDir", !.started = Append(@, k)]
    /\ UNCHANGED <<fmt, bal, syn, ext, wfs>>

\* backupPath = `${config.currentMapPath}.bak`; pathExists(config.currentMapPath)
AfterEnsureDir(k) ==
    /\ srv.runs[k].pc = "ensureDir"
    /\ srv' = [srv EXCEPT
                 !.runs[k].pc = "pathExists",
                 !.runs[k].backupPath = srv.currentMapPath,
                 !.runs[k].existed = srv.files[srv.currentMapPath] # Null]
    /\ UNCHANGED <<fmt, bal, syn, ext, wfs>>

\* if (existed) copy(config.currentMapPath, backupPath), else straight to writeFile
AfterPathExists(k) ==
    /\ srv.runs[k].pc = "pathExists"
    /\ srv' = IF srv.runs[k].existed
              THEN [srv EXCEPT
                      !.runs[k].pc = "copy",
                      !.baks[srv.runs[k].backupPath] = srv.files[srv.currentMapPath]]
              ELSE [srv EXCEPT
                      !.runs[k].pc = "writeFile",
                      !.files[srv.currentMapPath] = srv.runs[k].content]
    /\ UNCHANGED <<fmt, bal, syn, ext, wfs>>

\* writeFile(config.currentMapPath, content)
AfterCopy(k) ==
    /\ srv.runs[k].pc = "copy"
    /\ srv' = [srv EXCEPT
                 !.runs[k].pc = "writeFile",
                 !.files[srv.currentMapPath] = srv.runs[k].content]
    /\ UNCHANGED <<fmt, bal, syn, ext, wfs>>

\* backupAndWriteCurrent returns { backupPath, hadBackup: existed }; validateMap
AfterWriteFile(k) ==
    /\ srv.runs[k].pc = "writeFile"
    /\ srv' = [srv EXCEPT !.runs[k].pc = "validateMap"]
    /\ UNCHANGED <<fmt, bal, syn, ext, wfs>>

\* restoreBackup({ backupPath, hadBackup }) is issued on s: the file at
\* config.currentMapPath is removed if there was no backup (safeUnlink never
\* throws), else the backup is copied onto it; copied tells whether that
\* copy works
restoreBackup(s, k, copied) ==
    IF ~s.runs[k].existed
    THEN [s EXCEPT !.runs[k].pc = "restore", !.runs[k].fsError = FALSE,
                   !.files[s.currentMapPath] = Null]
    ELSE IF copied
    THEN [s EXCEPT !.runs[k].pc = "restore", !.runs[k].fsError = FALSE,
                   !.files[s.currentMapPath] = s.baks[s.runs[k].backupPath]]
    ELSE [s EXCEPT !.runs[k].pc = "restore", !.runs[k].fsError = TRUE]

\* cleanupBackup: the backup is removed if there was one
cleanupBackup(s, k) ==
    IF s.runs[k].existed
    THEN [s EXCEPT !.runs[k].pc = "cleanup", !.baks[s.runs[k].backupPath] = Null]
    ELSE [s EXCEPT !.runs[k].pc = "cleanup"]

\* /save: the result of validateMap is ignored, thrown or not; cleanupBackup
SaveAfterValidateMap(k) ==
    /\ srv.runs[k].pc = "validateMap" /\ srv.runs[k].kind = "save"
    /\ srv' = cleanupBackup(srv, k)
    /\ UNCHANGED <<fmt, bal, syn, ext, wfs>>

\* /validate: validateMap returned a result or threw; either way
\* restoreBackup comes next, from the try block or from the catch block
ValidateAfterValidateMap(k) ==
    /\ srv.runs[k].pc = "validateMap" /\ srv.runs[k].kind = "validate"
    /\ \E threw \in BOOLEAN, copied \in BOOLEAN :
          srv' = restoreBackup([srv EXCEPT !.runs[k].failed = threw], k, copied)
    /\ UNCHANGED <<fmt, bal, syn, ext, wfs>>

\* restoreBackup returned: cleanupBackup
AfterRestore(k) ==
    /\ srv.runs[k].pc = "restore" /\ ~srv.runs[k].fsError
    /\ srv' = cleanupBackup(srv, k)
    /\ UNCHANGED <<fmt, bal, syn, ext, wfs>>

\* restoreBackup threw in the try block: the catch block calls it again
RestoreThrewInTry(k) ==
    /\ srv.runs[k].pc = "restore" /\ srv.runs[k].fsError /\ ~srv.runs[k].failed
    /\ \E copied \in BOOLEAN :
          srv' = restoreBackup([srv EXCEPT !.runs[k].failed = TRUE], k, copied)
    /\ UNCHANGED <<fmt, bal, syn, ext, wfs>>

\* restoreBackup threw in the catch block: the body rejects
RestoreThrewInCatch(k) ==
    /\ srv.runs[k].pc = "restore" /\ srv.runs[k].fsError /\ srv.runs[k].failed
    /\ srv' = [srv EXCEPT !.runs[k].pc = "rejected"]
    /\ UNCHANGED <<fmt, bal, syn, ext, wfs>>

\* the response is sent and the body resolves
AfterCleanup(k) ==
    /\ srv.runs[k].pc = "cleanup"
    /\ srv' = [srv EXCEPT !.runs[k].pc = "resolved"]
    /\ UNCHANGED <<fmt, bal, syn, ext, wfs>>

\* /open of an existing mapfile makes it the current one; the handler takes
\* no lock (the check that the file exists and the assignment to config are
\* taken as one step)
Open(p) ==
    /\ srv.opens < MaxOpens
    /\ srv.files[p] # Null
    /\ srv' = [srv EXCEPT !.currentMapPath = p, !.opens = @ + 1]
    /\ UNCHANGED <<fmt, bal, syn, ext, wfs>>

\* the steps the event loop takes on its own
BodyStep ==
    \E k \in 1..Len(srv.runs) :
       \/ StartBody(k)
       \/ AfterEnsureDir(k)
       \/ AfterPathExists(k)
       \/ AfterCopy(k)
       \/ AfterWriteFile(k)
       \/ SaveAfterValidateMap(k)
       \/ ValidateAfterValidateMap(k)
       \/ AfterRestore(k)
       \/ RestoreThrewInTry(k)
       \/ RestoreThrewInCatch(k)
       \/ AfterCleanup(k)

SrvNext ==
    \/ \E kind \in {"save", "validate"} : Submit(kind)
    \/ \E p \in MapPaths : Open(p)
    \/ \E k \in 1..Len(srv.runs) : StartBody(k)
    \/ \E k \in 1..Len(srv.runs) : AfterEnsureDir(k)
    \/ \E k \in 1..Len(srv.runs) : AfterPathExists(k)
    \/ \E k \in 1..Len(srv.runs) : AfterCopy(k)
    \/ \E k \in 1..Len(srv.runs) : AfterWriteFile(k)
    \/ \E k \in 1..Len(srv.runs) : SaveAfterValidateMap(k)
    \/ \E k \in 1..Len(srv.runs) : ValidateAfterValidateMap(k)
    \/ \E k \in 1..Len(srv.runs) : AfterRestore(k)
    \/ \E k \in 1..Len(srv.runs) : RestoreThrewInTry(k)
    \/ \E k \in 1..Len(srv.runs) : RestoreThrewInCatch(k)
    \/ \E k \in 1..Len(srv.runs) : AfterCleanup(k)

\* a.map is the current mapfile and may not exist yet; b.map exists
SrvInit ==
    /\ \E a \in {"A0", Null} :
          srv = [SrvIdle EXCEPT
                   !.files = [p \in MapPaths |-> IF p = "a.map" THEN a ELSE "B0"],
                   !.before = [p \in MapPaths |-> IF p = "a.map" THEN a ELSE "B0"]]
    /\ fmt = FmtIdle /\ bal = BalIdle /\ syn = SynIdle /\ ext = ExtIdle /\ wfs = WfsIdle

SpecServer == SrvInit /\ [][SrvNext]_vars

\* a file operation, a child process and a settled promise's reaction all
\* complete: the event loop runs every body step that stays enabled
SpecServerFair == SpecServer /\ WF_vars(BodyStep)

----------------------------------------------------------------------------
(* Specifications: one per consumer; the other consumers stay idle         *)


FmtInit ==
    /\ \E x \in FmtTexts, w \in IndentSizes :
          fmt = [FmtIdle EXCEPT !.src = x, !.indentSize = w]
    /\ bal = BalIdle /\ syn = SynIdle /\ ext = ExtIdle /\ wfs = WfsIdle /\ srv = SrvIdle

SpecFormat == FmtInit /\ [][FmtNext]_vars

HealInit ==
    /\ \E x \in HealDamaged, w \in IndentSizes :
          fmt = [FmtIdle EXCEPT !.src = JoinWith(x, <<LF>>), !.indentSize = w]
    /\ bal = BalIdle /\ syn = SynIdle /\ ext = ExtIdle /\ wfs = WfsIdle /\ srv = SrvIdle

SpecHeal == HealInit /\ [][FmtNext]_vars

DepthInit ==
    /\ \E t \in DepthTexts :
          /\ fmt = [FmtIdle EXCEPT !.src = t]
          /\ ext = [ExtIdle EXCEPT !.text = t]
    /\ bal = BalIdle /\ syn = SynIdle /\ wfs = WfsIdle /\ srv = SrvIdle

SpecDepth == DepthInit /\ [][DepthNext]_vars

\* lines with block comments that open, close and span lines, around block
\* keywords, END and other words
CommentLineSet ==
    { <<"MAP">>,
      <<"END">>,
      <<"FOO">>,
      <<"METADATA">>,
      <<"PROJECTION", SP, "/", "*", SP, "x", SP, "*", "/">>,
      <<DQ, "k", DQ, SP, "/", "*", SP, "END">>,
      <<"/", "*", SP, "LAYER">>,
      <<"CLASS", SP, "*", "/", SP, "END">> }

MaxCommentLines == 3

CommentTexts == TextsOf(CommentLineSet, MaxCommentLines, <<LF>>)

\* both detectors are given the same text, each with its default options
CommentInit ==
    /\ \E t \in CommentTexts :
          /\ bal = [BalIdle EXCEPT !.text = t]
          /\ syn = [SynIdle EXCEPT !.text = t]
    /\ fmt = FmtIdle /\ ext = ExtIdle /\ wfs = WfsIdle /\ srv = SrvIdle

CommentNext ==
    \/ BalNext
    \/ SynNext

SpecComment == CommentInit /\ [][CommentNext]_vars

BalInit ==
    /\ \E t \in BalTexts, o \in BalOptions :
          bal = [BalIdle EXCEPT !.text = t, !.options = o]
    /\ fmt = FmtIdle /\ syn = SynIdle /\ ext = ExtIdle /\ wfs = WfsIdle /\ srv = SrvIdle

SpecAnalyze == BalInit /\ [][BalNext]_vars

SynInit ==
    /\ \E t \in SynTexts, n \in SoftSuppressionOptions :
          syn = [SynIdle EXCEPT !.text = t, !.softSuppressionLines = n]
    /\ fmt = FmtIdle /\ bal = BalIdle /\ ext = ExtIdle /\ wfs = WfsIdle /\ srv = SrvIdle

SpecDetect == SynInit /\ [][SynNext]_vars

ExtInit ==
    /\ \E t \in ExtTexts, k \in Proj4Kinds :
          ext = [ExtIdle EXCEPT !.text = t, !.proj4 = k]
    /\ fmt = FmtIdle /\ bal = BalIdle /\ syn = SynIdle /\ wfs = WfsIdle /\ srv = SrvIdle

SpecSync == ExtInit /\ [][ExtNext]_vars

WalkInit ==
    /\ \E web \in WalkWebMetas, kinds \in WalkLayerSeqs :
          wfs = [WfsIdle EXCEPT !.text = WalkText(web, kinds)]
    /\ fmt = FmtIdle /\ bal = BalIdle /\ syn = SynIdle /\ ext = ExtIdle /\ srv = SrvIdle

SpecWalk == WalkInit /\ [][WalkNext]_vars

WfsInit ==
    /\ \E n \in LayerNames, t \in LayerTypes, m \in LayerMetas, w \in WebMetas :
          wfs = [WfsIdle EXCEPT
                   !.pc = "layer", !.hasLayer = TRUE,
                   !.currentLayer = [name |-> n, type |-> t, metadata |-> m],
                   !.webMetadata = w]
    /\ fmt = FmtIdle /\ bal = BalIdle /\ syn = SynIdle /\ ext = ExtIdle /\ srv = SrvIdle

SpecWfs == WfsInit /\ [][WfsNext]_vars

----------------------------------------------------------------------------
(* Claims                                                                  *)

\* C1: formatting is idempotent: formatMapfile(formatMapfile(x, w), w) equals
\* formatMapfile(x, w) exactly, for unbalanced text, END lines with block-name
\* hints, comments and blank lines alike.
C1_FormatIdempotent ==
    (fmt.pc = "done" /\ fmt.calls = 2) => fmt.ret = fmt.prev

\* a second formatting of a text whose first formatting changed it
\* (indentation, tabs, CR LF) and that held an END with a hint has returned
C1_Witness ==
    /\ fmt.pc = "done" /\ fmt.calls = 2
    /\ fmt.ret # <<>>
    /\ \E i \in 1..Len(fmt.lines) :
          /\ endLine(Trim(fmt.lines[i]))
          /\ Len(Trim(fmt.lines[i])) > 1
    /\ \E i \in 1..Len(fmt.out) : fmt.out[i] # <<>> /\ fmt.out[i][1] = SP

\* the kinds of line C2 speaks of, told apart on the trimmed line
IsOpenerOnlyLine(l) ==
    LET t == Trim(l)
    IN /\ t # <<>>
       /\ Upper(t[1]) \in DEFAULT_BLOCK_OPENERS
       /\ LET rest == DropWs(Tail(t)) IN rest = <<>> \/ rest[1] = HASH

IsEndOnlyLine(l) == Trim(l) = <<"END">>

RECURSIVE IsArgList(_)
\* blank-separated quoted strings and numbers
IsArgList(r) ==
    \/ r = <<>>
    \/ /\ Len(r) >= 2 /\ IsWs(r[1]) /\ r[2] \in NumRuns
       /\ IsArgList(SubSeq(r, 3, Len(r)))
    \/ /\ Len(r) >= 4 /\ IsWs(r[1]) /\ r[2] = DQ /\ IsWordRun(r[3]) /\ r[4] = DQ
       /\ IsArgList(SubSeq(r, 5, Len(r)))

IsDirectiveLine(l) ==
    LET t == Trim(l)
    IN /\ Len(t) >= 2
       /\ IsWord(t[1])
       /\ Upper(t[1]) \notin DEFAULT_BLOCK_OPENERS \cup {"END"}
       /\ IsArgList(Tail(t))

\* the opens never closed (n) and the ENDs met with no open block (m)
RECURSIVE Unmatched(_, _, _, _)
Unmatched(lines, i, n, m) ==
    IF i > Len(lines) THEN [opens |-> n, closes |-> m]
    ELSE IF IsOpenerOnlyLine(lines[i]) THEN Unmatched(lines, i + 1, n + 1, m)
    ELSE IF IsEndOnlyLine(lines[i]) THEN
        (IF n > 0 THEN Unmatched(lines, i + 1, n - 1, m)
                  ELSE Unmatched(lines, i + 1, n, m + 1))
    ELSE Unmatched(lines, i + 1, n, m)

\* C2: with default options, for a text of standalone opener lines, END lines
\* and ordinary directive lines (a keyword followed by quoted-string or numeric
\* arguments), analyze reports exactly N missingEnds and M extraEnds, N the
\* openers never closed and M the ENDs met with no open block; the text
\* MAP / LAYER / NAME "a" / END / END yields ok = true.
C2_BalanceSoundness ==
    ( /\ bal.pc = "done"
      /\ bal.options = BalDefaults
      /\ \A i \in 1..Len(bal.lines) :
            \/ IsOpenerOnlyLine(bal.lines[i])
            \/ IsEndOnlyLine(bal.lines[i])
            \/ IsDirectiveLine(bal.lines[i]) )
    => /\ Len(bal.missingEnds) = Unmatched(bal.lines, 1, 0, 0).opens
       /\ Len(bal.extraEnds) = Unmatched(bal.lines, 1, 0, 0).closes
       /\ (bal.text = BalancedRoundtrip => bal.ok)

\* the line about to be scanned starts, outside any comment, with a known block
\* keyword that is followed by arguments on the same line
BalKeywordWithArgs ==
    /\ BalAtLine
    /\ ~bal.state.inBlockComment
    /\ LET t == Trim(BalLine)
       IN /\ t # <<>>
          /\ Upper(t[1]) \in DEFAULT_BLOCK_OPENERS
          /\ LET rest == DropWs(Tail(t))
             IN rest # <<>> /\ rest[1] \notin {HASH, "/"}

\* the line about to be scanned consists only of a known block keyword,
\* optionally followed by a comment
BalKeywordAlone ==
    /\ BalAtLine
    /\ ~bal.state.inBlockComment
    /\ IsOpenerOnlyLine(BalLine)

\* C3: in the Balance Detector a line whose first word is a known block keyword
\* followed by arguments on the same line never pushes a frame, and a line
\* consisting only of the keyword (optionally followed by a comment) pushes
\* exactly one frame.
C3_BalanceNonOpenerExclusion ==
    [][ /\ BalKeywordWithArgs => Len(bal'.stack) <= Len(bal.stack)
        /\ BalKeywordAlone => /\ Len(bal'.stack) = Len(bal.stack) + 1
                              /\ SubSeq(bal'.stack, 1, Len(bal.stack)) = bal.stack ]_vars

\* the line about to be checked starts with a block keyword followed by arguments
SynKeywordWithArgs ==
    /\ SynAtLine
    /\ ~syn.state.inBlockComment
    /\ LET t == Trim(SynRawLine)
       IN /\ t # <<>>
          /\ Upper(t[1]) \in BLOCKS
          /\ LET rest == DropWs(Tail(t))
             IN rest # <<>> /\ rest[1] \notin {HASH, "/"}

\* the line about to be checked consists only of a block keyword and,
\* optionally, a comment
SynKeywordAlone ==
    /\ SynAtLine
    /\ ~syn.state.inBlockComment
    /\ LET t == Trim(SynRawLine)
       IN /\ t # <<>>
          /\ Upper(t[1]) \in BLOCKS
          /\ LET rest == DropWs(Tail(t)) IN rest = <<>> \/ rest[1] = HASH

\* C4: in the Syntax/Context Checker a line whose first word is a block keyword
\* followed by arguments on the same line never pushes a frame onto the block
\* stack, and a line consisting only of the block keyword (optionally followed
\* by a comment) pushes exactly one frame.
C4_CheckerNonOpenerExclusion ==
    [][ /\ SynKeywordWithArgs => Len(syn'.stack) <= Len(syn.stack)
        /\ SynKeywordAlone => /\ Len(syn'.stack) = Len(syn.stack) + 1
                              /\ SubSeq(syn'.stack, 1, Len(syn.stack)) = syn.stack ]_vars

\* the input of the call has a MAP block whose END the depth count finds
ExtMapWellFormed(text) ==
    \E lines \in {SplitCRLF(text)} :
    \E mapStart \in {findFirstBlockStart(lines, "MAP")} :
        mapStart # 0 /\ findBlockEnd(lines, mapStart) > mapStart

\* the LAYER block opened at line i of the MAP block at mapStart holds a
\* depth-1 EXTENT line with the extent e expressed in the layer's reference
LayerHasExtent(lines, i, e, proj4, mapCrs) ==
    \E layerEnd \in {findBlockEnd(lines, i)} :
    \E fromBlock \in {extractCrsFromBlock(lines, i, layerEnd)} :
    \E layerCrs \in {IF fromBlock # Null THEN fromBlock ELSE mapCrs} :
    \E j \in {FirstDepth1(lines, i, layerEnd, "EXTENT")} :
        /\ j # 0
        /\ DropWs(lines[j]) =
              <<"EXTENT", SP>> \o
                formatExtentValue(projectExtent(proj4, e, "CRS:84", layerCrs), layerCrs)

\* C5: with updateLayers and addMissing enabled, after one call to sync every
\* LAYER block that is a child of the MAP block contains a depth-1 EXTENT line
\* holding the supplied extent in that layer's coordinate reference, however
\* many layers there are and however many EXTENT lines were inserted before.
C5_EveryLayerGetsExtent ==
    ( /\ ext.pc = "done" /\ ext.calls = 1 /\ ext.error = Null
      /\ ext.viewportExtent4326 # NoExtent
      /\ ext.opts.updateLayers /\ ext.opts.addMissing
      /\ ExtMapWellFormed(ext.text) )
    => \E out \in {SplitCRLF(ext.ret)} :
       \E mapStart \in {findFirstBlockStart(out, "MAP")} :
       \E mapEnd \in {findBlockEnd(out, mapStart)} :
          \A i \in (mapStart + 1)..(mapEnd - 1) :
             ( /\ isBlockStart(out[i]) /\ StartsWithKeyword(out[i], "LAYER")
               /\ DepthAt(out, mapStart, i) = 1
               /\ findBlockEnd(out, i) > i )
             => LayerHasExtent(out, i, ext.viewportExtent4326, ext.proj4, ext.mapCrs)

\* C6: re-sync is idempotent: sync(sync(t, e, o), e, o) equals sync(t, e, o), a
\* second pass with the same extent neither changes nor adds a line.
C6_ResyncIdempotent ==
    (ext.pc = "done" /\ ext.calls = 2 /\ ext.error = Null) => ext.ret = ext.prev

\* C7: for a text whose MAP END cannot be located, neither by depth counting
\* nor by the last-END fallback, sync returns the original text unchanged and
\* raises no error.
C7_NoMapEndReturnsText ==
    ( /\ ext.pc = "done" /\ ext.calls = 1
      /\ ext.viewportExtent4326 # NoExtent
      /\ \E lines \in {SplitCRLF(ext.text)} :
         \E mapStart \in {findFirstBlockStart(lines, "MAP")} :
            /\ mapStart # 0
            /\ findBlockEnd(lines, mapStart) <= mapStart
            /\ findLastEndAfter(lines, mapStart) <= mapStart )
    => (ext.error = Null /\ ext.ret = ext.text)

\* the numbers sync has written on the line (toFixed output: digits, '.',
\* zeros), read back in order
WrittenNumbers(line) ==
    LET P == {p \in 1..(Len(line) - 2) :
                line[p + 1] = "." /\ line[p + 2] \in {"000", "000000"}}
        Nth(k) == CHOOSE p \in P : Cardinality({q \in P : q < p}) = k - 1
        Abs(p) == CHOOSE v \in 0..9 : ToString(v) = line[p]
        Val(p) == IF p > 1 /\ line[p - 1] = "-" THEN -Abs(p) ELSE Abs(p)
    IN [k \in 1..Cardinality(P) |-> Val(Nth(k))]

\* C8: for every input extent (a, b, c, d), a > c or b > d included, and every
\* block coordinate reference, the viewport's own included, every EXTENT line
\* and every wms_extent / wfs_extent value written by sync has minx <= maxx and
\* miny <= maxy.
C8_ExtentNormalized ==
    (ext.pc = "done" /\ ext.error = Null /\ ext.viewportExtent4326 # NoExtent)
    => \E out \in {SplitCRLF(ext.ret)} :
          \A i \in 1..Len(out) :
             \E e \in {WrittenNumbers(out[i])} :
                Len(e) = 4 => (e[1] <= e[3] /\ e[2] <= e[4])

\* no listed SOFT issue lies in the window opened by the listed HARD issue h
NoSoftInWindow(h) ==
    \A j \in 1..Len(syn.issues) :
        syn.issues[j].severity = "SOFT" =>
            ~( /\ h.lineNo <= syn.issues[j].lineNo
               /\ syn.issues[j].lineNo <= h.lineNo + syn.softSuppressionLines )

\* C9 as stated: whenever the checker has recorded a HARD issue at line L, the
\* final report lists no SOFT issue at a line between L and
\* L + softSuppressionLines inclusive, the HARD MISSING_END recorded at end of
\* file included.
C9_SuppressionWindowAll ==
    syn.pc = "done" =>
        \A i \in 1..Len(syn.issues) :
            syn.issues[i].severity = "HARD" => NoSoftInWindow(syn.issues[i])

\* C9 amended: the window holds for every HARD issue recorded during the scan
\* (NESTING, END_MISMATCH, MISSING_QUOTE), SOFT issues of the same line included;
\* the MISSING_END recorded at end of file removes nothing that was listed before.
C9_SuppressionWindowScan ==
    \A i \in 1..Len(syn.issues) :
        (syn.issues[i].severity = "HARD" /\ syn.issues[i].kind # "MISSING_END")
            => NoSoftInWindow(syn.issues[i])

\* a HARD issue was recorded, a SOFT issue inside its window was counted as
\* suppressed and a SOFT issue after the window was listed
C9_Witness ==
    /\ syn.pc = "done"
    /\ syn.suppressedSoftCount > 0
    /\ \E i, j \in 1..Len(syn.issues) :
          /\ syn.issues[i].severity = "HARD"
          /\ syn.issues[i].kind = "NESTING"
          /\ syn.issues[j].severity = "SOFT"
          /\ syn.issues[j].lineNo > syn.issues[i].lineNo + syn.softSuppressionLines

\* the layer's own METADATA enables every request and supplies a title and
\* a reference system
WfsFullyDescribed(metaLower) ==
    /\ "wfs_enable_request" \in DOMAIN metaLower
    /\ metaLower["wfs_enable_request"] = <<"*">>
    /\ "wfs_title" \in DOMAIN metaLower /\ Trim(metaLower["wfs_title"]) # <<>>
    /\ "wfs_srs" \in DOMAIN metaLower /\ Trim(metaLower["wfs_srs"]) # <<>>

\* C10: a named LAYER whose own METADATA has wfs_enable_request "*", a
\* wfs_title and a wfs_srs (each with a value) and whose TYPE is POLYGON is
\* classified supported; with TYPE RASTER it is classified unsupported whatever
\* enable flags, titles and SRS the layer or the WEB METADATA carry.
C10_WfsStrictness ==
    (wfs.pc = "closed" /\ wfs.currentLayer.name # Null)
    => \E verdict \in {wfs.supportMap[1][2]} :
          /\ ( /\ wfs.currentLayer.type = "POLYGON"
               /\ WfsFullyDescribed(normalizeMeta(wfs.currentLayer.metadata)) )
             => verdict.supported
          /\ (wfs.currentLayer.type # Null /\ Upper(wfs.currentLayer.type) = "RASTER")
             => ~verdict.supported

\* a RASTER layer that carries everything a vector layer needs has been
\* classified
C10_Witness ==
    /\ wfs.pc = "closed" /\ wfs.currentLayer.name # Null
    /\ wfs.currentLayer.type = "RASTER"
    /\ WfsFullyDescribed(normalizeMeta(wfs.currentLayer.metadata))
    /\ ~wfs.supportMap[1][2].supported

\* the four enable flags in the order the claim gives them
EnableOrder ==
    << <<"layer", "wfs_enable_request">>, <<"layer", "ows_enable_request">>,
       <<"web", "wfs_enable_request">>, <<"web", "ows_enable_request">> >>

\* a classified layer that is not a raster layer
WfsVectorClosed ==
    /\ wfs.pc = "closed" /\ wfs.currentLayer.name # Null
    /\ (wfs.currentLayer.type = Null \/ Upper(wfs.currentLayer.type) # "RASTER")

\* the metadata m of the given scope without the enable flags other than the
\* flag f of EnableOrder
WithoutOtherFlags(m, scope, f) ==
    [k \in (DOMAIN m \ {"wfs_enable_request", "ows_enable_request"})
              \cup (IF f[1] = scope THEN {f[2]} \cap DOMAIN m ELSE {}) |-> m[k]]

\* C11: for a non-raster layer the enable flag that decides the verdict is the
\* first one present in the order layer wfs_enable_request, layer
\* ows_enable_request, WEB wfs_enable_request, WEB ows_enable_request; later
\* flags are ignored even when the chosen flag disables WFS (the verdict is the
\* one the layer gets with the later flags removed), and with none of the four
\* present the layer is unsupported.
C11_EnablePriority ==
    WfsVectorClosed =>
    \E lm \in {normalizeMeta(wfs.currentLayer.metadata)} :
    \E wm \in {normalizeMeta(wfs.webMetadata)} :
    \E verdict \in {wfs.supportMap[1][2]} :
    \E P \in {{k \in 1..4 : EnableOrder[k][2] \in
                    DOMAIN (IF EnableOrder[k][1] = "layer" THEN lm ELSE wm)}} :
        IF P = {} THEN ~verdict.supported /\ Len(verdict.reasons) = 1
        ELSE \E f \in {EnableOrder[CHOOSE k \in P : \A q \in P : k <= q]} :
             \E val \in {(IF f[1] = "layer" THEN lm ELSE wm)[f[2]]} :
                /\ verdict.reasons[1] = <<f[2], val, f[1]>>
                /\ val \in {<<"none">>, <<"off">>} => ~verdict.supported
                /\ verdict = computeWfsSupportForLayer(wfs.currentLayer,
                                 WithoutOtherFlags(lm, "layer", f),
                                 WithoutOtherFlags(wm, "web", f))

\* a layer whose own wfs_enable_request disables WFS while its
\* ows_enable_request and the WEB wfs_enable_request allow GetFeature has been
\* classified unsupported on the strength of the first flag
C11_Witness ==
    /\ WfsVectorClosed
    /\ wfs.currentLayer.type = "POLYGON"
    /\ \E lm \in {normalizeMeta(wfs.currentLayer.metadata)} :
          /\ "wfs_enable_request" \in DOMAIN lm /\ lm["wfs_enable_request"] = <<"none">>
          /\ "ows_enable_request" \in DOMAIN lm
          /\ valueIncludesGetFeature(lm["ows_enable_request"])
    /\ \E wm \in {normalizeMeta(wfs.webMetadata)} :
          "wfs_enable_request" \in DOMAIN wm /\ wm["wfs_enable_request"] = <<"*">>
    /\ ~wfs.supportMap[1][2].supported
    /\ wfs.supportMap[1][2].reasons[1] = <<"wfs_enable_request", <<"none">>, "layer">>

\* the metadata object supplies a value that is not blank under one of the keys
Supplies(metaLower, keys) ==
    \E k \in keys \cap DOMAIN metaLower :
        \E p \in 1..Len(metaLower[k]) : ~IsWs(metaLower[k][p])

\* C12: when a non-raster layer's enable flag allows GetFeature, the layer is
\* supported if and only if its own METADATA supplies both a title (wfs_title
\* or ows_title) and an SRS (wfs_srs or ows_srs); titles and SRS of the WEB
\* METADATA do not count, and when unsupported the reasons name exactly the
\* missing item or items.
C12_LayerLocalTitleAndSrs ==
    WfsVectorClosed =>
    \E lm \in {normalizeMeta(wfs.currentLayer.metadata)} :
    \E enable \in {EnableRequest(lm, normalizeMeta(wfs.webMetadata))} :
    \E verdict \in {wfs.supportMap[1][2]} :
    \E hasT \in {Supplies(lm, {"wfs_title", "ows_title"})} :
    \E hasS \in {Supplies(lm, {"wfs_srs", "ows_srs"})} :
        ( /\ enable # <<>>
          /\ ~valueLooksDisabled(enable[2]) /\ valueIncludesGetFeature(enable[2]) )
        => /\ verdict.supported <=> (hasT /\ hasS)
           /\ ~verdict.supported =>
                 Tail(verdict.reasons) =
                    (IF hasT THEN <<>> ELSE << <<"missing wfs_title/ows_title">> >>)
                    \o (IF hasS THEN <<>> ELSE << <<"missing wfs_srs/ows_srs">> >>)

\* a layer allowed to serve GetFeature that has a title of its own but finds
\* an SRS only in the WEB METADATA has been classified unsupported, the SRS
\* alone named as missing
C12_Witness ==
    /\ WfsVectorClosed
    /\ \E lm \in {normalizeMeta(wfs.currentLayer.metadata)} :
          /\ Supplies(lm, {"wfs_title", "ows_title"})
          /\ ~Supplies(lm, {"wfs_srs", "ows_srs"})
    /\ \E wm \in {normalizeMeta(wfs.webMetadata)} :
          /\ Supplies(wm, {"wfs_srs"}) /\ Supplies(wm, {"wfs_title"})
          /\ "wfs_enable_request" \in DOMAIN wm
    /\ ~wfs.supportMap[1][2].supported
    /\ Len(wfs.supportMap[1][2].reasons) = 2
    /\ wfs.supportMap[1][2].reasons[2] = <<"missing wfs_srs/ows_srs">>

\* the reference of the first PROJECTION block that is a depth-1 child of the
\* block start .. end, Null when the block has none of its own
OwnProjectionCrs(lines, start, end) ==
    LET S == {i \in (start + 1)..(end - 1) :
                /\ isBlockStart(lines[i]) /\ StartsWithKeyword(lines[i], "PROJECTION")
                /\ DepthAt(lines, start, i) = 1}
        Epsg(epsg) == IF epsg = Null THEN Null ELSE "EPSG:" \o epsg
        In(projStart) ==
            Epsg(FindCode(SliceText(lines, projStart, findBlockEnd(lines, projStart)),
                          "EPSG", ":"))
    IN IF S = {} THEN Null ELSE In(CHOOSE i \in S : \A j \in S : i <= j)

\* the reference resolved for the first LAYER that is a depth-1 child of the
\* MAP block, from that layer's own lines; Null when there is no such layer or
\* it resolves to nothing
FirstChildLayerCrs(lines, mapStart, mapEnd) ==
    LET S == {i \in (mapStart + 1)..(mapEnd - 1) :
                /\ isBlockStart(lines[i]) /\ StartsWithKeyword(lines[i], "LAYER")
                /\ DepthAt(lines, mapStart, i) = 1
                /\ findBlockEnd(lines, i) > i}
        Crs(layerStart) ==
            extractCrsFromBlock(lines, layerStart, findBlockEnd(lines, layerStart))
    IN IF S = {} THEN Null ELSE Crs(CHOOSE i \in S : \A j \in S : i <= j)

\* C13: the MAP's coordinate reference is taken from a PROJECTION block of the
\* MAP itself when it has one, otherwise it is the reference resolved for the
\* first child LAYER, otherwise CRS:84; what a second or later LAYER carries
\* never determines it.
C13_MapCrsSource ==
    ( /\ ext.pc = "map" /\ ext.calls = 0
      /\ findBlockEnd(ext.lines, ext.mapStart) = ext.mapEnd )
    => \E own \in {OwnProjectionCrs(ext.lines, ext.mapStart, ext.mapEnd)} :
       \E first \in {FirstChildLayerCrs(ext.lines, ext.mapStart, ext.mapEnd)} :
          ext.mapCrs = IF own # Null THEN own
                       ELSE IF first # Null THEN first
                       ELSE "CRS:84"

\* the depth-1 lines of the block start .. end that start with the keyword
Depth1Lines(lines, start, end, keyword) ==
    {i \in (start + 1)..(end - 1) :
        /\ ~isComment(lines[i])
        /\ ~StartsWithKeyword(lines[i], "END")
        /\ DepthAt(lines, start, i) = 1
        /\ StartsWithKeyword(lines[i], keyword)}

\* the k-th smallest member of a set of line indexes
Nth(S, k) == CHOOSE i \in S : Cardinality({j \in S : j < i}) = k - 1

\* the LAYER blocks that are children of the MAP block whose END the depth
\* count finds
ChildLayers(lines, mapStart) ==
    {i \in Depth1Lines(lines, mapStart, findBlockEnd(lines, mapStart), "LAYER") :
        isBlockStart(lines[i]) /\ findBlockEnd(lines, i) > i}

\* the block start .. end holds exactly one depth-1 EXTENT line, at the place
\* and with the indentation C14 gives for an inserted line
InsertedWhereClaimed(lines, start, end, strategy) ==
    \E E \in {Depth1Lines(lines, start, end, "EXTENT")} :
    \E P \in {{i \in Depth1Lines(lines, start, end, "PROJECTION") : isBlockStart(lines[i])}} :
    \E A \in {Depth1Lines(lines, start, end, IF strategy = "map" THEN "SIZE" ELSE "NAME")} :
    \E D \in {{i \in (start + 1)..(end - 1) :
                 /\ ~isComment(lines[i]) /\ Trim(lines[i]) # <<>>
                 /\ ~StartsWithKeyword(lines[i], "END") /\ ~isBlockStart(lines[i])
                 /\ DepthAt(lines, start, i) = 1
                 /\ ~StartsWithKeyword(lines[i], "EXTENT")}} :
        /\ Cardinality(E) = 1
        /\ \A j \in E :
              /\ start < j /\ j < end
              /\ j - 1 = IF P # {} THEN findBlockEnd(lines, Nth(P, 1))
                         ELSE IF A # {} THEN Nth(A, 1)
                         ELSE start
              /\ D # {} => LeadingWs(lines[j]) = LeadingWs(lines[Nth(D, 1)])

\* C14: when a MAP or LAYER block has no depth-1 EXTENT line and addMissing is
\* on, sync inserts exactly one EXTENT line into that block: right after the
\* END of a PROJECTION block directly inside it if there is one, otherwise
\* right after its depth-1 SIZE line (MAP) or NAME line (LAYER), otherwise right
\* after its opening line; the line is indented like the block's depth-1
\* directive lines and lies strictly inside the block.
C14_ExtentInsertion ==
    ( /\ ext.pc = "done" /\ ext.calls = 1 /\ ext.error = Null
      /\ ext.viewportExtent4326 # NoExtent
      /\ ext.opts.addMissing
      /\ ExtMapWellFormed(ext.text) )
    => \E in \in {SplitCRLF(ext.text)} :
       \E out \in {SplitCRLF(ext.ret)} :
       \E inMap \in {findFirstBlockStart(in, "MAP")} :
       \E outMap \in {findFirstBlockStart(out, "MAP")} :
       \E inLayers \in {ChildLayers(in, inMap)} :
       \E outLayers \in {ChildLayers(out, outMap)} :
          /\ ( /\ ext.opts.updateMap
               /\ Depth1Lines(in, inMap, findBlockEnd(in, inMap), "EXTENT") = {} )
             => InsertedWhereClaimed(out, outMap, findBlockEnd(out, outMap), "map")
          /\ ext.opts.updateLayers =>
                /\ Cardinality(outLayers) = Cardinality(inLayers)
                /\ \A k \in 1..Cardinality(inLayers) :
                      Depth1Lines(in, Nth(inLayers, k),
                                  findBlockEnd(in, Nth(inLayers, k)), "EXTENT") = {}
                      => InsertedWhereClaimed(out, Nth(outLayers, k),
                                              findBlockEnd(out, Nth(outLayers, k)), "layer")

\* the formatter is at a line that is no comment and whose first token is END
FmtAtEndToken ==
    /\ FmtAtLine
    /\ FmtTrimmed # <<>>
    /\ Upper(FmtTrimmed[1]) = "END"

\* C15: in the Formatter every non-comment line whose first token is END, bare,
\* with a block-name hint or followed by any other trailing comment, pops
\* exactly one frame when the stack is not empty and is emitted at the depth
\* reached after the pop; on an empty stack it is emitted at depth 0 and the
\* stack stays empty.
C15_EndPopsOnce ==
    [][ FmtAtEndToken =>
          /\ Len(fmt'.stack) = Max(Len(fmt.stack) - 1, 0)
          /\ fmt'.stack = SubSeq(fmt.stack, 1, Len(fmt'.stack))
          /\ Len(fmt'.out) = Len(fmt.out) + 1
          /\ fmt'.out[Len(fmt'.out)] =
                Repeat(IND(fmt.indentSize), Len(fmt'.stack)) \o FmtTrimmed ]_vars

\* the first END line with a block-name hint after line `after`, 0 if none
NextNamedEnd(lines, after) ==
    LET S == {i \in (after + 1)..Len(lines) :
                endLine(Trim(lines[i])) /\ Len(Trim(lines[i])) > 1}
    IN IF S = {} THEN 0 ELSE CHOOSE i \in S : \A j \in S : i <= j

\* the line of the damaged text at which C16 promises the depth of the
\* undamaged text again: the next named END following the damage
HealLine(u, d) ==
    NextNamedEnd(Damaged(u, d), IF d.kind = "missing" THEN d.at - 1 ELSE d.at)

\* the line of the undamaged text that line q of the damaged text comes from
OrigLine(d, q) == IF d.kind = "missing" THEN q + 1 ELSE q - 1

\* C16: self-healing by named END: for a well-formed text whose END lines carry
\* block-name hints, damaged by exactly one missing END or exactly one extra
\* END, the Formatter's depth after the next named END following the damage
\* equals its depth at the same line of the undamaged text.
C16_SelfHealing ==
    (fmt.pc = "loop" /\ fmt.calls = 1) =>
    \A u \in HealTexts : \A d \in Damages(u) :
        ( /\ Damaged(u, d) = fmt.lines
          /\ HealLine(u, d) # 0
          /\ fmt.k = HealLine(u, d) + 1 )
        => Len(fmt.stack) = Len(StackAfter(u, OrigLine(d, HealLine(u, d))))

\* C17: the Formatter changes nothing but leading whitespace: the output has
\* as many lines as the input, each output line without its leading whitespace
\* equals the input line without its leading whitespace, and blank or
\* whitespace-only lines are emitted exactly as they were in the input.
C17_OnlyLeadingWhitespace ==
    (fmt.pc = "done" /\ fmt.calls = 1) =>
    \E in \in {SplitCRLF(fmt.src)} :
        /\ Len(fmt.out) = Len(in)
        /\ \A i \in 1..Len(in) :
              /\ DropWs(fmt.out[i]) = DropWs(in[i])
              /\ Trim(in[i]) = <<>> => fmt.out[i] = in[i]

\* after its leading blanks the line starts with a keyword of the set K that
\* is followed by arguments
KeywordWithArgs(line, K) ==
    \E t \in {DropWs(line)} :
        /\ t # <<>> /\ Upper(t[1]) \in K
        /\ \E rest \in {Trim(Tail(t))} : rest # <<>> /\ rest[1] # HASH

\* the line consists only of a keyword of the set K, alone or followed only by
\* a comment
KeywordAlone(line, K) ==
    \E t \in {DropWs(line)} :
        /\ t # <<>> /\ Upper(t[1]) \in K
        /\ \E rest \in {Trim(Tail(t))} : rest = <<>> \/ rest[1] = HASH

\* C18: in the Formatter and in the depth counting of findBlockEnd a line whose
\* first word is a block keyword followed by arguments (STYLE HILITE,
\* PATTERN 10 10) never increases depth, and a line consisting only of a block
\* keyword the component knows, alone or followed only by a comment, increases
\* depth by exactly one.
C18_OpenerOnlyWhenAlone ==
    [][ /\ (FmtAtLine /\ fmt'.k = fmt.k + 1) =>
              /\ KeywordWithArgs(FmtRaw, OPENERS \cup BLOCK_STARTERS)
                    => Len(fmt'.stack) <= Len(fmt.stack)
              /\ KeywordAlone(FmtRaw, OPENERS)
                    => fmt'.stack = Append(fmt.stack, Upper(FmtTrimmed[1]))
        /\ (ScanAtLine /\ ext'.scan # ext.scan) =>
              /\ KeywordWithArgs(ScanLine, OPENERS \cup BLOCK_STARTERS)
                    => ext'.scan.depth <= ext.scan.depth
              /\ KeywordAlone(ScanLine, BLOCK_STARTERS)
                    => ext'.scan.depth = ext.scan.depth + 1 ]_vars

\* the formatter has indented only the line after STYLE # ... or STYLE alone,
\* not the one after STYLE HILITE, and findBlockEnd has counted the same text
\* to depth 2 at its end
C18_Witness ==
    /\ fmt.pc = "done" /\ ext.pc = "scanned"
    /\ Len(fmt.lines) = 3
    /\ KeywordAlone(fmt.lines[1], OPENERS)
    /\ KeywordWithArgs(fmt.lines[2], OPENERS)
    /\ KeywordAlone(fmt.lines[3], OPENERS)
    /\ Len(fmt.stack) = 2
    /\ LeadingWs(fmt.out[2]) = LeadingWs(fmt.out[3])
    /\ ext.scan.startLine = 1 /\ ext.scan.depth = 2 /\ ext.scan.ret = 1

\* C19 as stated: when blocks remain open at end of file, missingEnds lists
\* them innermost first: the most recently opened unterminated block is the
\* first element and the outermost one the last.
C19_MissingEndsInnermostFirst ==
    bal.pc = "done" =>
        \A i, j \in 1..Len(bal.missingEnds) :
            i < j => bal.missingEnds[i].line > bal.missingEnds[j].line

\* C19 amended: missingEnds lists the blocks still open at end of file in the
\* order they were opened: the outermost one is the first element and the most
\* recently opened one the last.
C19_MissingEndsOutermostFirst ==
    bal.pc = "done" =>
        \A i, j \in 1..Len(bal.missingEnds) :
            i < j => bal.missingEnds[i].line < bal.missingEnds[j].line

\* analyze has returned with MAP and, inside it, LAYER still open
C19_Witness ==
    /\ bal.pc = "done"
    /\ Len(bal.missingEnds) = 2
    /\ bal.missingEnds[1].type = "MAP" /\ bal.missingEnds[1].line = 1
    /\ bal.missingEnds[2].type = "LAYER" /\ bal.missingEnds[2].line = 2

\* the analyzer is at a line, outside a block comment, whose first word is
\* not a known opener
BalAtUnknownWord ==
    /\ BalAtLine
    /\ ~bal.state.inBlockComment /\ ~bal.state.inQuote
    /\ bal.options.enableHeuristicOpeners
    /\ \E t \in {Trim(BalLine)} :
          t # <<>> /\ IsWord(t[1]) /\ Upper(t[1]) \notin DEFAULT_BLOCK_OPENERS

\* r opens a comment that runs to the end of the line
CommentToEol(r) ==
    \/ r[1] = HASH
    \/ Len(r) >= 2 /\ r[1] = "/" /\ r[2] = "/"
    \/ /\ Len(r) >= 2 /\ r[1] = "/" /\ r[2] = "*"
       /\ ~\E k \in 3..(Len(r) - 1) : r[k] = "*" /\ r[k + 1] = "/"

\* comments aside, the whole line is one word in capitals, of three characters
\* or more, that is not END
SingleCapsWord(line) ==
    \E t \in {Trim(line)} :
        /\ t # <<>>
        /\ IsWord(t[1]) /\ Upper(t[1]) = t[1]
        /\ Len(t[1]) >= 3 /\ t[1] # "END"
        /\ \E r \in {DropWs(Tail(t))} : r = <<>> \/ CommentToEol(r)

\* C20: with heuristic openers enabled, a line that starts with a word outside
\* the known opener set pushes a heuristic frame if and only if its whole
\* content, comments aside, is a single word in capitals, at least 3 long and
\* not END; a line with further content (NAME "a", SIZE 400 300) or a word in
\* lower or mixed case pushes nothing.
C20_HeuristicOpener ==
    [][ (BalAtUnknownWord /\ bal'.idx = bal.idx + 1) =>
          IF SingleCapsWord(BalLine)
          THEN /\ Len(bal'.stack) = Len(bal.stack) + 1
               /\ bal'.stack[Len(bal'.stack)].line = bal.idx + 1
          ELSE \A k \in 1..Len(bal'.stack) : bal'.stack[k].line # bal.idx + 1 ]_vars

\* the analyzer, run with default options, takes the line with word tokens
\* that it is at
BalDefaultStep ==
    /\ BalAtLine /\ bal.options = BalDefaults
    /\ BalWordTokens # <<>>
    /\ bal'.idx = bal.idx + 1

\* C21: with default options an END word that is not the first word token of
\* its line changes neither the stack nor extraEnds unless that same line
\* opened a block; an END that is the first word token either pops exactly one
\* frame or, on an empty stack, adds exactly one extraEnds entry and leaves the
\* stack empty.
C21_InlineEndHonoured ==
    [][ BalDefaultStep =>
          /\ (Upper(BalWordTokens[1].text) # "END" /\ ~BalOpenedThisLine)
                => (bal'.stack = bal.stack /\ bal'.extraEnds = bal.extraEnds)
          /\ Upper(BalWordTokens[1].text) = "END"
                => IF bal.stack = <<>>
                   THEN /\ bal'.stack = <<>>
                        /\ Len(bal'.extraEnds) = Len(bal.extraEnds) + 1
                        /\ SubSeq(bal'.extraEnds, 1, Len(bal.extraEnds)) = bal.extraEnds
                        /\ bal'.extraEnds[Len(bal'.extraEnds)].line = bal.idx + 1
                   ELSE /\ bal'.stack = SubSeq(bal.stack, 1, Len(bal.stack) - 1)
                        /\ bal'.extraEnds = bal.extraEnds ]_vars

\* with default options MAP was left open by a following NAME "a" END, whose
\* END is no first word, and the line END ... END after it closed MAP and no more
C21_Witness ==
    /\ bal.pc = "done" /\ bal.options = BalDefaults
    /\ Len(bal.lines) = 3
    /\ bal.lines[1] = <<"MAP">>
    /\ bal.lines[2] = <<SP, SP, "NAME", SP, DQ, "a", DQ, SP, "END">>
    /\ bal.lines[3] = <<"END", SP, "*", "/", SP, "END">>
    /\ bal.missingEnds = <<>>
    /\ bal.extraEnds = <<>>

\* a line that holds a wms_extent or wfs_extent entry
IsExtentEntry(line) ==
    /\ ~isComment(line)
    /\ parseMetadataEntryLine(line).ok
    /\ Len(parseMetadataEntryLine(line).key) = 1
    /\ Upper(parseMetadataEntryLine(line).key[1]) \in {"WMS_EXTENT", "WFS_EXTENT"}

\* the index of the last lexeme of the key token of an entry line
KeyTokenEnd(line) ==
    LET k0 == Len(LeadingWs(line)) + 1
    IN IF line[k0] \in {DQ, SQ}
       THEN CHOOSE k \in (k0 + 1)..Len(line) :
               line[k] = line[k0] /\ \A m \in (k0 + 1)..(k - 1) : line[m] # line[k0]
       ELSE k0

\* the index of the first lexeme of the value of an entry line
ValueStart(line) ==
    CHOOSE k \in (KeyTokenEnd(line) + 1)..Len(line) :
        ~IsWs(line[k]) /\ \A m \in (KeyTokenEnd(line) + 1)..(k - 1) : IsWs(line[m])

\* the quote character that opens the value, or none
ValueQuote(line) ==
    IF line[ValueStart(line)] \in {DQ, SQ} THEN <<line[ValueStart(line)]>> ELSE <<>>

\* a written extent value: no quote, no comment sign, not empty
IsPlainValue(v) == v # <<>> /\ \A k \in 1..Len(v) : v[k] \notin {DQ, SQ, HASH}

\* the entry lines of the text handed to sync and of the text it returned
EntriesBefore == SelectSeq(SplitCRLF(ext.text), IsExtentEntry)
EntriesAfter == SelectSeq(SplitCRLF(ext.ret), IsExtentEntry)

\* a first call of sync has returned a text
SyncReturned == ext.pc = "done" /\ ext.calls = 1 /\ ext.error = Null

\* C22 as stated: sync never adds a wms_extent or wfs_extent entry, and a
\* rewritten entry keeps everything up to the value (indentation, key token,
\* the whitespace between key and value, the opening quote), the closing quote
\* and the trailing comment; only the value between them is new.
C22_OnlyValueReplaced ==
    SyncReturned =>
       /\ Len(EntriesAfter) = Len(EntriesBefore)
       /\ \A k \in 1..Len(EntriesBefore) :
             LET old == EntriesBefore[k]
                 new == EntriesAfter[k]
                 head == SubSeq(old, 1, ValueStart(old) - 1) \o ValueQuote(old)
                 tail == ValueQuote(old) \o parseMetadataEntryLine(old).commentRaw
             IN \/ new = old
                \/ /\ Len(new) > Len(head) + Len(tail)
                   /\ SubSeq(new, 1, Len(head)) = head
                   /\ SubSeq(new, Len(new) - Len(tail) + 1, Len(new)) = tail
                   /\ IsPlainValue(SubSeq(new, Len(head) + 1, Len(new) - Len(tail)))

\* C22: sync never adds a wms_extent or wfs_extent entry, and a rewritten entry
\* is the line's indentation and key token as written, one blank, the new value
\* in the quote characters of the old one, and the trailing comment as written.
C22_ValueRewrittenAfterOneBlank ==
    SyncReturned =>
       /\ Len(EntriesAfter) = Len(EntriesBefore)
       /\ \A k \in 1..Len(EntriesBefore) :
             LET old == EntriesBefore[k]
                 new == EntriesAfter[k]
                 head == SubSeq(old, 1, KeyTokenEnd(old)) \o <<SP>> \o ValueQuote(old)
                 tail == ValueQuote(old) \o parseMetadataEntryLine(old).commentRaw
             IN \/ new = old
                \/ /\ Len(new) > Len(head) + Len(tail)
                   /\ SubSeq(new, 1, Len(head)) = head
                   /\ SubSeq(new, Len(new) - Len(tail) + 1, Len(new)) = tail
                   /\ IsPlainValue(SubSeq(new, Len(head) + 1, Len(new) - Len(tail)))

\* sync rewrote an entry with a trailing comment and an entry whose value
\* stood two blanks after its key
C22_Witness ==
    /\ SyncReturned
    /\ Len(EntriesBefore) = 2
    /\ parseMetadataEntryLine(EntriesBefore[1]).commentRaw # <<>>
    /\ ValueStart(EntriesBefore[2]) = KeyTokenEnd(EntriesBefore[2]) + 3
    /\ \A k \in 1..2 : EntriesAfter[k] # EntriesBefore[k]

\* the checker, run with allowMultilineQuotes off, takes the line it is at
SynLineStep ==
    /\ SynAtLine /\ ~syn.allowMultilineQuotes
    /\ syn'.idx = syn.idx + 1

\* the line, read by its characters alone, starts with the word w
StartsWithWord(line, w) ==
    DropWs(line) # <<>> /\ Upper(Head(DropWs(line))) = w

\* C23: with allowMultilineQuotes off the lexer's inQuote is false after every
\* line; an unterminated quote on line k is reported for line k as a HARD
\* MISSING_QUOTE, and the lexer state handed to line k+1 carries nothing of
\* the quote, so a line that starts with END or a block keyword still moves
\* the stack.
C23_QuoteEndsWithLine ==
    [][ SynLineStep =>
          /\ ~syn'.state.inQuote /\ syn'.state.quoteChar = ""
          /\ syn'.state = tokenizeLine(SynRawLine, syn.state, FALSE).state
          /\ SynOut.unclosedQuotes # <<>>
                => \E k \in (Len(syn.issues) + 1)..Len(syn'.issues) :
                      /\ syn'.issues[k].lineNo = SynLineNo
                      /\ syn'.issues[k].kind = "MISSING_QUOTE"
                      /\ syn'.issues[k].severity = "HARD"
          /\ (~syn.state.inBlockComment /\ StartsWithWord(SynRawLine, "END"))
                => syn'.stack = IF Len(syn.stack) <= 1 THEN syn.stack
                                ELSE SubSeq(syn.stack, 1, Len(syn.stack) - 1)
          /\ (~syn.state.inBlockComment /\ \E w \in BLOCKS : StartsWithWord(SynRawLine, w))
                => /\ Len(syn'.stack) = Len(syn.stack) + 1
                   /\ syn'.stack[Len(syn'.stack)].line = SynLineNo ]_vars

\* MAP, a NAME line whose quote is not closed, END: the quote was reported for
\* line 2 and the END of line 3 closed MAP
C23_Witness ==
    /\ syn.pc = "done" /\ ~syn.allowMultilineQuotes
    /\ syn.lines = << <<"MAP">>, <<"NAME", SP, DQ, "a">>, <<"END">> >>
    /\ Len(syn.stack) = 1
    /\ Len(syn.issues) = 1
    /\ syn.issues[1].kind = "MISSING_QUOTE" /\ syn.issues[1].lineNo = 2

\* the issues that the step from syn to syn' recorded
NewIssueIndexes == (Len(syn.issues) + 1)..Len(syn'.issues)

\* C24: the Syntax Checker's stack always has ROOT as its bottom frame and is
\* never shorter than one frame; an END line met while only ROOT is on the
\* stack records exactly one HARD END_MISMATCH at that line and leaves the
\* stack unchanged, and a block opener met on ROOT alone is pushed on top of it.
C24_RootStaysAtBottom ==
    /\ [](Len(syn.stack) >= 1 /\ syn.stack[1] = [type |-> "ROOT", line |-> 0, col |-> 0])
    /\ [][ (SynAtLine /\ syn'.idx = syn.idx + 1 /\ Len(syn.stack) = 1
              /\ ~syn.state.inBlockComment) =>
             /\ StartsWithWord(SynRawLine, "END")
                   => /\ syn'.stack = syn.stack
                      /\ Cardinality({k \in NewIssueIndexes :
                                         syn'.issues[k].kind = "END_MISMATCH"}) = 1
                      /\ \A k \in NewIssueIndexes :
                            syn'.issues[k].kind = "END_MISMATCH"
                               => /\ syn'.issues[k].severity = "HARD"
                                  /\ syn'.issues[k].lineNo = SynLineNo
                      /\ SubSeq(syn'.issues, 1, Len(syn.issues)) = syn.issues
             /\ \A w \in BLOCKS :
                   StartsWithWord(SynRawLine, w)
                      => /\ Len(syn'.stack) = 2
                         /\ syn'.stack[1] = syn.stack[1]
                         /\ syn'.stack[2].type = w /\ syn'.stack[2].line = SynLineNo ]_vars

\* END, END, MAP: each END on ROOT alone was reported and MAP stands on ROOT
C24_Witness ==
    /\ syn.pc = "done"
    /\ syn.lines = << <<"END">>, <<"END">>, <<"MAP">> >>
    /\ Len(syn.stack) = 2 /\ syn.stack[1].type = "ROOT" /\ syn.stack[2].type = "MAP"
    /\ Len(syn.issues) = 3
    /\ syn.issues[1].kind = "END_MISMATCH" /\ syn.issues[1].lineNo = 1
    /\ syn.issues[2].kind = "END_MISMATCH" /\ syn.issues[2].lineNo = 2
    /\ syn.issues[3].kind = "MISSING_END"

\* the index of the quote that closes the string opened before lexeme i, or 0
ClosingQuote(line, i, quote) ==
    LET S == {k \in i..Len(line) : line[k] = quote}
    IN IF S = {} THEN 0 ELSE CHOOSE k \in S : \A m \in S : k <= m

\* read by its characters alone: is a block comment open at the end of the
\* line, given whether one was open at lexeme i
RECURSIVE CommentOpenAfter(_, _, _)
CommentOpenAfter(line, i, open) ==
    LET next == IF i + 1 <= Len(line) THEN line[i + 1] ELSE ""
    IN IF i > Len(line) THEN open
       ELSE IF open
       THEN IF line[i] = "*" /\ next = "/" THEN CommentOpenAfter(line, i + 2, FALSE)
            ELSE CommentOpenAfter(line, i + 1, TRUE)
       ELSE IF line[i] = HASH \/ (line[i] = "/" /\ next = "/") THEN FALSE
       ELSE IF line[i] = "/" /\ next = "*" THEN CommentOpenAfter(line, i + 2, TRUE)
       ELSE IF line[i] \in {DQ, SQ}
       THEN IF ClosingQuote(line, i + 1, line[i]) = 0 THEN FALSE
            ELSE CommentOpenAfter(line, ClosingQuote(line, i + 1, line[i]) + 1, FALSE)
       ELSE CommentOpenAfter(line, i + 1, FALSE)

\* the line without what stands between a comment opening and its closing
RECURSIVE OutsideComments(_, _, _)
OutsideComments(line, i, open) ==
    LET next == IF i + 1 <= Len(line) THEN line[i + 1] ELSE ""
    IN IF i > Len(line) THEN <<>>
       ELSE IF open
       THEN IF line[i] = "*" /\ next = "/" THEN OutsideComments(line, i + 2, FALSE)
            ELSE OutsideComments(line, i + 1, TRUE)
       ELSE IF line[i] = "/" /\ next = "*" THEN OutsideComments(line, i + 2, TRUE)
       ELSE IF line[i] = HASH \/ (line[i] = "/" /\ next = "/")
       THEN SubSeq(line, i, Len(line))
       ELSE IF line[i] \in {DQ, SQ}
       THEN IF ClosingQuote(line, i + 1, line[i]) = 0 THEN SubSeq(line, i, Len(line))
            ELSE SubSeq(line, i, ClosingQuote(line, i + 1, line[i]))
                 \o OutsideComments(line, ClosingQuote(line, i + 1, line[i]) + 1, FALSE)
       ELSE <<line[i]>> \o OutsideComments(line, i + 1, FALSE)

\* is a block comment open after the first n of the lines
RECURSIVE CommentOpenAfterLines(_, _)
CommentOpenAfterLines(lines, n) ==
    IF n = 0 THEN FALSE
    ELSE CommentOpenAfter(lines[n], 1, CommentOpenAfterLines(lines, n - 1))

\* tokens without their columns
TokenWords(tokens) ==
    [k \in 1..Len(tokens) |->
        IF tokens[k].type = "word" THEN [type |-> "word", text |-> <<tokens[k].text>>]
        ELSE [type |-> "string", text |-> tokens[k].value]]

\* the tokens the lexer gives for a line that holds no comment
PlainTokens(line) == TokenWords(tokenizeLine(line, LexerState0, FALSE).tokens)

\* C26: from a comment opening to the next closing the tokenizer emits no
\* token and resumes right after the closing; inBlockComment is true after a
\* line exactly when an opened comment is not yet closed; a line that lies
\* wholly inside a block comment changes neither the Balance Detector's stack
\* and extraEnds nor the Syntax Checker's stack and issues.
C26_BlockCommentsHideTokens ==
    /\ [](bal.pc = "loop"
            => bal.state.inBlockComment = CommentOpenAfterLines(bal.lines, bal.idx))
    /\ [](syn.pc = "loop"
            => syn.state.inBlockComment = CommentOpenAfterLines(syn.lines, syn.idx))
    /\ [][ /\ (BalAtLine /\ bal'.idx = bal.idx + 1) =>
               /\ TokenWords(BalOut.tokens)
                     = PlainTokens(OutsideComments(BalLine, 1, bal.state.inBlockComment))
               /\ Trim(OutsideComments(BalLine, 1, bal.state.inBlockComment)) = <<>>
                     => /\ bal'.stack = bal.stack
                        /\ bal'.extraEnds = bal.extraEnds
           /\ (SynAtLine /\ syn'.idx = syn.idx + 1) =>
               /\ TokenWords(SynOut.tokens)
                     = PlainTokens(OutsideComments(SynRawLine, 1, syn.state.inBlockComment))
               /\ Trim(OutsideComments(SynRawLine, 1, syn.state.inBlockComment)) = <<>>
                     => /\ syn'.stack = syn.stack
                        /\ syn'.issues = syn.issues ]_vars

\* both detectors read MAP, a comment opened before LAYER and closed on the
\* next line after CLASS, and the END behind it: MAP is closed, nothing is
\* reported
C26_Witness ==
    /\ bal.pc = "done" /\ syn.pc = "done"
    /\ bal.lines = << <<"MAP">>, <<"/", "*", SP, "LAYER">>,
                      <<"CLASS", SP, "*", "/", SP, "END">> >>
    /\ bal.missingEnds = <<>> /\ bal.extraEnds = <<>>
    /\ Len(syn.stack) = 1 /\ syn.issues = <<>>

\* 1 if the condition holds, else 0
OneIf(cond) == IF cond THEN 1 ELSE 0

\* how many issues of a severity the indexes I of syn'.issues hold
CountNew(severity) ==
    Cardinality({k \in NewIssueIndexes : syn'.issues[k].severity = severity})

\* the HARD findings of the line the checker is at: one per unclosed quote, an
\* END on ROOT alone, a block keyword under a parent that is not allowed
HardFindings ==
    Len(SynOut.unclosedQuotes)
    + OneIf(SynIsWordLine /\ SynKw = "END" /\ Len(syn.stack) <= 1)
    + OneIf(SynIsWordLine /\ SynKw \in BLOCKS /\ ~isAllowedParent(SynKw, SynCtx))

\* the SOFT findings of the line the checker is at
SoftFindings ==
    IF ~SynIsWordLine \/ SynKw = "END" THEN 0
    ELSE IF SynKw \in BLOCKS
    THEN OneIf(SynCtx \in DOMAIN ALLOWED_FIRST_TOKENS
               /\ SynKw \notin ALLOWED_FIRST_TOKENS[SynCtx])
    ELSE IF SynCtx = "METADATA"
    THEN OneIf(Len(SynOut.tokens) >= 2
               /\ (looksUpperKeyword(SynKw)
                   \/ SynOut.tokens[2].type \notin {"string", "word"}))
    ELSE IF SynCtx = "PROJECTION" THEN 0
    ELSE OneIf(SynCtx \in DOMAIN ALLOWED_FIRST_TOKENS /\ looksUpperKeyword(SynKw)
               /\ SynKw \notin ALLOWED_FIRST_TOKENS[SynCtx])
         + OneIf(looksUpperKeyword(SynKw) /\ SynKw \notin GLOBAL_KNOWN)

\* how many issues of a severity a sequence holds
CountOf(issues, severity) ==
    Cardinality({k \in 1..Len(issues) : issues[k].severity = severity})

\* C28: HARD issues are never suppressed, and every SOFT issue the checker
\* generates is either listed or counted in the suppressed total, never both
\* and never neither; the report lists what was listed and notes the
\* suppressed total; after an illegal top-level CLASS with the default window
\* it lists the HARD NESTING issue, no SOFT entry, and the suppressed count.
C28_SuppressionAccounting ==
    /\ [][ (SynAtLine /\ syn'.idx = syn.idx + 1) =>
             /\ CountNew("HARD") = HardFindings
             /\ CountNew("SOFT") + (syn'.suppressedSoftCount - syn.suppressedSoftCount)
                   = SoftFindings
             /\ SubSeq(syn'.issues, 1, Len(syn.issues)) = syn.issues ]_vars
    /\ [][ (syn.pc = "loop" /\ syn'.pc = "done") =>
             /\ CountNew("HARD") = OneIf(Len(syn.stack) > 1)
             /\ CountNew("SOFT") = 0
             /\ syn'.suppressedSoftCount = syn.suppressedSoftCount ]_vars
    /\ [](syn.pc = "done" =>
             /\ Len(syn.report.hard) = CountOf(syn.issues, "HARD")
             /\ Len(syn.report.soft) = CountOf(syn.issues, "SOFT")
             /\ \A k \in 1..Len(syn.report.hard) : syn.report.hard[k].severity = "HARD"
             /\ \A k \in 1..Len(syn.report.soft) : syn.report.soft[k].severity = "SOFT"
             /\ syn.report.suppressedNote = syn.suppressedSoftCount
             /\ syn.report.suppressedNote > 0 => ~syn.report.clean)
    /\ [](( /\ syn.pc = "done"
            /\ syn.softSuppressionLines = DefaultSoftSuppressionLines
            /\ syn.lines # <<>> /\ syn.lines[1] = <<"CLASS">> ) =>
             /\ syn.report.hard[1].kind = "NESTING" /\ syn.report.hard[1].lineNo = 1
             /\ syn.report.soft = <<>>
             /\ syn.report.suppressedNote > 0)

\* CLASS at top level, then two lines FOO: the report lists NESTING and
\* MISSING_END, no SOFT entry, and notes five suppressed warnings
C28_Witness ==
    /\ syn.pc = "done" /\ syn.softSuppressionLines = DefaultSoftSuppressionLines
    /\ syn.lines = << <<"CLASS">>, <<"FOO">>, <<"FOO">> >>
    /\ Len(syn.report.hard) = 2
    /\ syn.report.hard[1].kind = "NESTING" /\ syn.report.hard[2].kind = "MISSING_END"
    /\ syn.report.soft = <<>>
    /\ syn.report.suppressedNote = 5

\* read by the text alone: the keywords of the blocks open after the first n
\* lines; a word alone on its line opens a block, END closes one
RECURSIVE EnclosingBlocks(_, _)
EnclosingBlocks(lines, n) ==
    IF n = 0 THEN <<>>
    ELSE LET s == EnclosingBlocks(lines, n - 1)
             l == Trim(lines[n])
         IN IF l = <<>> \/ Head(l) = HASH THEN s
            ELSE IF Upper(Head(l)) = "END"
            THEN IF s = <<>> THEN s ELSE SubSeq(s, 1, Len(s) - 1)
            ELSE IF Len(l) = 1 /\ IsWordRun(l[1]) THEN Append(s, Upper(l[1]))
            ELSE s

\* how many LAYER blocks of the MAP have opened within the first n lines
LayerNo(lines, n) ==
    Cardinality({i \in 1..n : /\ EnclosingBlocks(lines, i - 1) = <<"MAP">>
                               /\ EnclosingBlocks(lines, i) = <<"MAP", "LAYER">>})

IsExtentLine(line) == Trim(line) # <<>> /\ Upper(Head(Trim(line))) = "EXTENT"

\* the indexes of the EXTENT lines directly inside block b: 0 is the MAP, k
\* the k-th LAYER
OwnExtentIndexes(lines, b) ==
    {i \in 1..Len(lines) :
        /\ IsExtentLine(lines[i])
        /\ IF b = 0 THEN EnclosingBlocks(lines, i - 1) = <<"MAP">>
           ELSE /\ EnclosingBlocks(lines, i - 1) = <<"MAP", "LAYER">>
                /\ LayerNo(lines, i) = b}

\* the indexes of the EXTENT lines inside any other block
NestedExtentIndexes(lines) ==
    {i \in 1..Len(lines) :
        /\ IsExtentLine(lines[i])
        /\ EnclosingBlocks(lines, i - 1) \notin {<<"MAP">>, <<"MAP", "LAYER">>}}

\* the lines at the indexes I, in order
RECURSIVE LinesAt(_, _)
LinesAt(lines, I) ==
    IF I = {} THEN <<>>
    ELSE LET m == CHOOSE i \in I : \A j \in I : i <= j
         IN <<lines[m]>> \o LinesAt(lines, I \ {m})

\* a is b with some elements left out
RECURSIVE IsSubseq(_, _)
IsSubseq(a, b) ==
    IF a = <<>> THEN TRUE
    ELSE IF b = <<>> THEN FALSE
    ELSE IF Head(a) = Head(b) THEN IsSubseq(Tail(a), Tail(b))
    ELSE IsSubseq(a, Tail(b))

\* s without its k-th element
Without(s, k) == SubSeq(s, 1, k - 1) \o SubSeq(s, k + 1, Len(s))

\* C27: sync rewrites at most one EXTENT line per MAP or LAYER block and only
\* one directly inside that block: an EXTENT line inside a nested block that
\* is no LAYER is never modified; with updateMap off the MAP's own EXTENT
\* lines, with updateLayers off every LAYER's EXTENT lines, are unchanged.
\* (Lines that sync inserts are not rewritten lines: the lines of the text
\* are looked for among the lines of the result.)
C27_OneExtentAtDepthOne ==
    SyncReturned =>
      \E before \in {SplitCRLF(ext.text)} :
      \E after \in {SplitCRLF(ext.ret)} :
        /\ IsSubseq(LinesAt(before, NestedExtentIndexes(before)),
                    LinesAt(after, NestedExtentIndexes(after)))
        /\ \A b \in 0..MaxLayers :
              \E old \in {LinesAt(before, OwnExtentIndexes(before, b))} :
              \E new \in {LinesAt(after, OwnExtentIndexes(after, b))} :
                 /\ old # <<>> => \E k \in 1..Len(old) : IsSubseq(Without(old, k), new)
                 /\ (b = 0 /\ ~ext.opts.updateMap) => IsSubseq(old, new)
                 /\ (b > 0 /\ ~ext.opts.updateLayers) => IsSubseq(old, new)

\* the verdict of the layer of kind kind at place k of a map with WEB
\* METADATA web, from the layer's own TYPE and METADATA
OwnVerdict(web, kind, k) ==
    computeWfsSupportForLayer(
        [name |-> LayerNameAt[k], type |-> kind.type, metadata |-> kind.meta],
        normalizeMeta(kind.meta), normalizeMeta(web))

\* C25: for a well-formed mapfile every LAYER block that has a NAME appears in
\* the result of getWfsSupportMap with the verdict computed from that layer's
\* own TYPE and METADATA, also when a STYLE holds the line SYMBOL "circle".
C25_EveryNamedLayerClassified ==
    wfs.pc = "done" =>
      \A web \in WalkWebMetas, kinds \in WalkLayerSeqs :
         WalkText(web, kinds) = wfs.text =>
            \A k \in 1..Len(kinds) :
               kinds[k].named =>
                  \E e \in 1..Len(wfs.supportMap) :
                     /\ wfs.supportMap[e][1] = LayerNameAt[k]
                     /\ wfs.supportMap[e][2] = OwnVerdict(web, kinds[k], k)

\* a body is under way: entered and not yet settled
BodyRunning(pc) == pc # "queued" /\ ~BodySettled(pc)

\* no body has been entered before an earlier one settled, and the bodies
\* were entered in the order of their submission
BodiesInOrder ==
    /\ \A j \in 1..Len(srv.runs), k \in 1..Len(srv.runs) :
          j < k /\ srv.runs[k].pc # "queued" => BodySettled(srv.runs[j].pc)
    /\ Cardinality({k \in 1..Len(srv.runs) : BodyRunning(srv.runs[k].pc)}) <= 1
    /\ srv.started = [i \in 1..Len(srv.started) |-> i]

\* the k-th body has been submitted
BodySubmitted(k) == Len(srv.runs) >= k

\* the k-th body has been entered
BodyEntered(k) == Len(srv.runs) >= k /\ srv.runs[k].pc # "queued"

\* C29: the bodies passed to withFileLock run one at a time in the order of
\* their submission; a body is entered only after every body submitted before
\* it has settled, resolved or rejected; and every submitted body is
\* eventually entered, also after a body that rejected.
C29_BodiesRunInOrderAndAllRun ==
    /\ []BodiesInOrder
    /\ \A k \in 1..MaxBodies : BodySubmitted(k) ~> BodyEntered(k)

\* a body rejected and the body submitted after it ran to its end
C29_Witness ==
    \E j \in 1..Len(srv.runs), k \in 1..Len(srv.runs) :
       /\ j < k
       /\ srv.runs[j].pc = "rejected"
       /\ srv.runs[k].pc = "resolved"

\* every request so far was a /validate with content, and each has sent its
\* response
AllValidatesCompleted ==
    /\ srv.runs # <<>>
    /\ \A k \in 1..Len(srv.runs) :
          srv.runs[k].kind = "validate" /\ srv.runs[k].pc = "resolved"

\* C30: once /validate requests with content have completed, every mapfile
\* has the content it had before, whatever /open did to
\* config.currentMapPath while a validation was in flight.
C30_ValidateLeavesFilesAsBefore ==
    AllValidatesCompleted => srv.files = srv.before

====
